---- MODULE Spec2Model ----
(***************************************************************************)
(* Model of the birb-run task runner.                                      *)
(*                                                                         *)
(*  - the TaskTreeQueue ready-set and the bounded-concurrency pump         *)
(*    execute_tasks_concurrently (run/execution/scheduler.rs);             *)
(*  - the sequential driver run (run.rs) with build_dependency_graph       *)
(*    (run/dependency_resolution.rs) and topological_sort                  *)
(*    (run/dependency_resolution/topological_sort.rs).                     *)
(*                                                                         *)
(* Tasks are abstract identifiers 1..n.  Ordered containers of the source  *)
(* (LinkedHashMap, LinkedHashSet, Vec) are sequences; HashSet is a set.    *)
(***************************************************************************)
EXTENDS Integers, Sequences, FiniteSets, TLC

\* ---------------------------------------------------------------- bounds
NumTasks == 3          \* task identifiers of a parallel run
MaxEdges == 3          \* edges of deps_graph of a parallel run
MaxConcurrency == 2    \* largest max_concurrency tried (0 included)

NumRunTasks == 4       \* tasks of the taskfile of a sequential run
MaxDeps == 4           \* edges of the graph handed to topological_sort

NumFiles == 2          \* taskfiles on disk
MaxImports == 2        \* imports declared by all taskfiles together

NumKeys == 2           \* keys of the params and args of a task

NumPaths == 2          \* paths a task names as sources or outputs
MaxTime == 2           \* modification times are 1..MaxTime

MaxComps == 2          \* components of a declared output path

MaxLines == 2          \* lines the child of a shell step writes to one pipe
MaxSteps == 2          \* steps of the task handed to execute

MaxLoads == 2          \* calls of a front-end on one file that are followed

MaxSeqDeps == 2        \* deps declared by all tasks of a taskfile together
MaxRunDeps == 3        \* deps declared by a taskfile whose graph is built

Tasks == 1..NumTasks

RunTasks == 1..NumRunTasks

\* a loadable taskfile is identified by its canonical path
Files == 1..NumFiles

VARIABLES
    \* --- arguments of execute_tasks_concurrently
    max_concurrency,   \* usize
    input_queue,       \* the `queue` argument, in iteration order
    deps_graph,        \* task -> set of deps (absent key = empty set)
    cancel,            \* the flag behind run_while(): TRUE once cancelled
    \* --- locals of execute_tasks_concurrently
    pc,                \* position of the pump
    build_i,           \* next index of `for task in queue`
    queue,             \* tq.queue : sequence of [task, deps] in insertion order
    parents,           \* tq.parents : function dep -> set of dependents
    interrupted,       \* `interrupted`
    failures,          \* all_failures, tasks in order
    result,            \* "none", "Ok", "Interrupted", "Failed", "Waiting", "Panic"
    \* --- the JoinSet `running` and the spawned jobs
    job,               \* task -> "idle" | "running" | "ok" | "err" | "cancelled"
    notified,          \* finished jobs not yet joined, in completion order
    aborted,           \* abort_all() has been called
    started            \* history: tasks in the order they were spawned

VARIABLES
    \* --- run(workspace, current, req, run_manager) and topological_sort
    task_deps,         \* task -> body.deps, in declaration order
    req,               \* the requested (root) invocation
    rpc,               \* position of run
    graph,             \* deps_graph: [keys, succ], both in insertion order
    sorted,            \* the vector returned by topological_sort
    cycle,             \* the path of CycleDetected
    run_i,             \* jobs of the execution loop still to enter
    current,           \* the task entered and not yet finished, 0 if none
    entered,           \* history: tasks in the order enter_task was called
    completed,         \* tasks whose maybe_run_single_task returned Ok
    run_result         \* "none", "Ok", "CycleDetected", "Hang", "ExecutionError",
                       \* "Panic"

VARIABLES
    \* --- Workspace and the files it is loaded from
    disk,              \* file -> [status, imports, tasks] as found on disk
    ws,                \* Workspace.tasks : TaskfileId -> Taskfile
    ws_loads,          \* history: file -> calls of frontend.load_taskfile
    ws_call,           \* the last call of load_taskfile: [path, ret, hit]
    ws_res             \* the last lookup in the workspace and what it returned

VARIABLES
    \* --- Task::check_args(&self, args)
    inst_params,       \* self.params : key -> Param
    inst_args,         \* args : key -> Json
    inst_ret           \* what check_args returned, NotCalled before the call

VARIABLES
    \* --- maybe_run_single_task with a NaiveTriggerChecker
    fs,                \* path -> [exists, mtime] of the file system
    trg_task,          \* the InstantiatedTask: [outputs, sources, phony, steps]
    not_changed,       \* NaiveTriggerChecker.not_changed : path -> bool
    trg_pc,            \* position of maybe_run_single_task
    should_ret,        \* what should_run returned
    output_hashes,     \* context: the outputs hashed by sources_changed
    rewritten,         \* outputs whose content changed since they were hashed
    regenerated,       \* history: outputs regenerated and not marked changed
    task_ret           \* what maybe_run_single_task returned

VARIABLES
    \* --- clean and clean_instantiated_task
    tree,              \* the canonical paths that exist in the file system
    cl_workdir,        \* task.body.workdir of the task being cleaned
    cl_cwd,            \* the working directory of the process
    cl_steps,          \* task.body.clean is Some
    cl_pc,             \* position of clean_instantiated_task
    cl_last,           \* what was printed for the last output
    cl_removed,        \* history: canonical paths removed by clean
    cl_ret             \* "none", "Ok", "Other", "RemoveFileError", "Panic"

VARIABLES
    \* --- NaiveExecutor::exec_shell, its child and its two reader threads
    child,             \* "none", "running", "success", "failure"
    wrote,             \* history: pipe -> number of lines the child wrote
    pipe,              \* pipe -> lines written and not yet read
    reader,            \* pipe -> "lines", "send", "done", "panic"
    held,              \* pipe -> the line its reader is about to send
    chan,              \* the mpsc channel: lines sent and not yet received
    rx,                \* the receiver is alive
    sh_pc,             \* the consumer loop: "off", "recv", "try_wait", "done"
    sink,              \* history: the lines passed to output_handler
    sh_ret,            \* "none", "Ok", "Panic"
    \* --- NaiveExecutor::execute
    exec_steps,        \* number of commands handed to execute
    exec_i,            \* the command whose exec_shell was called last, 0 if none
    exec_ret           \* "none", "Ok", "Err", "Panic"

wsVars == <<disk, ws, ws_loads, ws_call, ws_res>>

stepVars == <<exec_steps, exec_i, exec_ret>>

shellVars == <<child, wrote, pipe, reader, held, chan, rx, sh_pc, sink,
               sh_ret, stepVars>>

cleanVars == <<tree, cl_workdir, cl_cwd, cl_steps, cl_pc, cl_last, cl_removed,
               cl_ret>>

trgVars == <<fs, trg_task, not_changed, trg_pc, should_ret, output_hashes,
             rewritten, regenerated, task_ret>>

argVars == <<inst_params, inst_args, inst_ret>>

VARIABLES
    \* --- the `after` lists of the deps of a taskfile
    dep_after          \* task -> pairs <<a, b>>: dep a names the id of dep b

afterVars == <<dep_after>>

\* the components added after the workspace
restVars == <<argVars, trgVars, cleanVars, shellVars, afterVars>>

runVars == <<task_deps, req, rpc, graph, sorted, cycle, run_i, current,
             entered, completed, run_result>>

schedVars == <<max_concurrency, input_queue, deps_graph, cancel, pc, build_i,
               queue, parents, interrupted, failures, result, job, notified,
               aborted, started>>

\* what an action of one component leaves alone
notSched == <<runVars, wsVars, restVars>>

notRun == <<schedVars, wsVars, restVars>>

notWs == <<schedVars, runVars, restVars>>

notArgs == <<schedVars, runVars, wsVars, trgVars, cleanVars, shellVars,
            afterVars>>

notTrig == <<schedVars, runVars, wsVars, argVars, cleanVars, shellVars,
            afterVars>>

notClean == <<schedVars, runVars, wsVars, argVars, trgVars, shellVars,
             afterVars>>

notShell == <<schedVars, runVars, wsVars, argVars, trgVars, cleanVars,
             afterVars>>

\* ------------------------------------------------------------ helpers
Range(s) == {s[i] : i \in 1..Len(s)}

RemoveAt(s, i) == SubSeq(s, 1, i - 1) \o SubSeq(s, i + 1, Len(s))

NotCalled == [ok |-> FALSE, err |-> "NotCalled"]

ArgsIdle ==
    /\ inst_params = <<>>
    /\ inst_args = <<>>
    /\ inst_ret = NotCalled

NotReturned == [ok |-> FALSE, err |-> "NotReturned"]

TrigIdle ==
    /\ fs = <<>>
    /\ trg_task = <<>>
    /\ not_changed = <<>>
    /\ trg_pc = "off"
    /\ should_ret = NotReturned
    /\ output_hashes = {}
    /\ rewritten = {}
    /\ regenerated = {}
    /\ task_ret = "none"

CleanIdle ==
    /\ tree = {}
    /\ cl_workdir = <<>>
    /\ cl_cwd = <<>>
    /\ cl_steps = FALSE
    /\ cl_pc = "off"
    /\ cl_last = "none"
    /\ cl_removed = {}
    /\ cl_ret = "none"

ShellIdle ==
    /\ child = "none"
    /\ wrote = <<>>
    /\ pipe = <<>>
    /\ reader = <<>>
    /\ held = <<>>
    /\ chan = <<>>
    /\ rx = FALSE
    /\ sh_pc = "off"
    /\ sink = <<>>
    /\ sh_ret = "none"
    /\ exec_steps = 0
    /\ exec_i = 0
    /\ exec_ret = "none"

\* everything added after the workspace is at rest
\* no dep of the taskfile carries an `after` list
AfterIdle == dep_after = <<>>

RestIdle == ArgsIdle /\ TrigIdle /\ CleanIdle /\ ShellIdle /\ AfterIdle

EdgeCount(g) == Cardinality({e \in (DOMAIN g) \X Tasks : e[2] \in g[e[1]]})

\* ------------------------------------------------------ TaskTreeQueue
QueueKeys(q) == {q[i].task : i \in 1..Len(q)}

QueueIndex(q, t) == CHOOSE i \in 1..Len(q) : q[i].task = t

\* mutant: only the first dependent of a dep is recorded
AddParentsOnce(p, task, deps) ==
    [d \in (DOMAIN p) \cup deps |->
        IF d \in DOMAIN p THEN p[d] ELSE {task}]

\* parents.entry(dep).or_default().insert(task) for every dep
AddParents(p, task, deps) ==
    [d \in (DOMAIN p) \cup deps |->
        IF d \in deps
        THEN (IF d \in DOMAIN p THEN p[d] ELSE {}) \cup {task}
        ELSE p[d]]

\* mutant: a new task is put at the front of the queue
AddQueueFront(q, task, deps, debug) ==
    IF task \in QueueKeys(q)
    THEN IF debug THEN q
         ELSE [q EXCEPT ![QueueIndex(q, task)].deps = @ \cup deps]
    ELSE <<[task |-> task, deps |-> deps]>> \o q

\* debug_assert!(!queue.contains_key(&task)), which a debug build checks
\* and a release build leaves out, then
\* queue.entry(task).or_insert_with(HashSet::new).extend(deps)
AddQueue(q, task, deps, debug) ==
    IF task \in QueueKeys(q)
    THEN IF debug THEN q
         ELSE [q EXCEPT ![QueueIndex(q, task)].deps = @ \cup deps]
    ELSE Append(q, [task |-> task, deps |-> deps])

\* TaskTreeQueue::add_set in a debug or a release build: the parents are
\* updated first; for a task that is already queued the debug build then
\* panics with the queue as it was
add_set(tq, task, deps, debug) ==
    [queue |-> AddQueue(tq.queue, task, deps, debug),
     parents |-> AddParents(tq.parents, task, deps),
     panic |-> debug /\ task \in QueueKeys(tq.queue)]

\* queue.iter().find(|(_, deps)| deps.is_empty())
ReadyIndices(q) == {i \in 1..Len(q) : q[i].deps = {}}

\* mutant: the last ready task of the queue is found instead of the first
LastReady(q) == CHOOSE i \in ReadyIndices(q) : \A j \in ReadyIndices(q) : i >= j

FirstReady(q) == CHOOSE i \in ReadyIndices(q) : \A j \in ReadyIndices(q) : i <= j

\* mutant: the first task of the queue is taken whatever its deps
take_next_ready_task_any(q) ==
    IF q = <<>>
    THEN [poll |-> "ReadyNone", task |-> 0, queue |-> q]
    ELSE [poll |-> "ReadySome", task |-> q[1].task, queue |-> Tail(q)]

\* mutant: an empty queue is reported as Pending
take_next_ready_task_never_none(q) ==
    IF q = <<>> \/ ReadyIndices(q) = {}
    THEN [poll |-> "Pending", task |-> 0, queue |-> q]
    ELSE [poll |-> "ReadySome", task |-> q[FirstReady(q)].task,
          queue |-> RemoveAt(q, FirstReady(q))]

\* TaskTreeQueue::take_next_ready_task: the poll, the task and the queue left
take_next_ready_task(q) ==
    IF q = <<>>
    THEN [poll |-> "ReadyNone", task |-> 0, queue |-> q]
    ELSE IF ReadyIndices(q) = {}
    THEN [poll |-> "Pending", task |-> 0, queue |-> q]
    ELSE [poll |-> "ReadySome", task |-> q[FirstReady(q)].task,
          queue |-> RemoveAt(q, FirstReady(q))]

\* for parent in parents { queue.get_mut(&parent).remove(task) }
DropEdge(q, ps, task) ==
    [i \in 1..Len(q) |->
        IF q[i].task \in ps THEN [q[i] EXCEPT !.deps = @ \ {task}] ELSE q[i]]

\* mutant: the fulfilled edge is not dropped from the dependents
mark_fulfilled_keep(tq, task) ==
    IF task \in QueueKeys(tq.queue)
    THEN [queue |-> RemoveAt(tq.queue, QueueIndex(tq.queue, task)),
          parents |-> tq.parents, panic |-> TRUE]
    ELSE [queue |-> tq.queue,
          parents |-> [d \in (DOMAIN tq.parents) \ {task} |-> tq.parents[d]],
          panic |-> FALSE]

\* mutant: the assert on the removed queue entry is left out
mark_fulfilled_unchecked(tq, task) ==
    IF task \in QueueKeys(tq.queue)
    THEN [queue |-> RemoveAt(tq.queue, QueueIndex(tq.queue, task)),
          parents |-> tq.parents, panic |-> FALSE]
    ELSE IF task \notin DOMAIN tq.parents
    THEN [queue |-> tq.queue, parents |-> tq.parents, panic |-> FALSE]
    ELSE [queue |-> DropEdge(tq.queue, tq.parents[task], task),
          parents |-> [d \in (DOMAIN tq.parents) \ {task} |-> tq.parents[d]],
          panic |-> FALSE]

\* TaskTreeQueue::mark_fulfilled: panics when the task is still queued
mark_fulfilled(tq, task) ==
    IF task \in QueueKeys(tq.queue)
    THEN [queue |-> RemoveAt(tq.queue, QueueIndex(tq.queue, task)),
          parents |-> tq.parents, panic |-> TRUE]
    ELSE IF task \notin DOMAIN tq.parents
    THEN [queue |-> tq.queue, parents |-> tq.parents, panic |-> FALSE]
    ELSE [queue |-> DropEdge(tq.queue, tq.parents[task], task),
          parents |-> [d \in (DOMAIN tq.parents) \ {task} |-> tq.parents[d]],
          panic |-> FALSE]

\* ------------------------------------------------------------ JoinSet
Running == {t \in Tasks : job[t] = "running"}

\* running.len(): tasks spawned and not yet joined
JoinSetLen == Cardinality(Running) + Len(notified)

\* mutant: off by one in the pool bound
HasCapacityOffByOne == JoinSetLen <= max_concurrency

\* while running.len() < max_concurrency
HasCapacity == JoinSetLen < max_concurrency

\* mutant: the pump never consults the flag
RunWhileIgnored == TRUE

\* run_while()
RunWhile == ~cancel

JoinNextNoneWaits == FALSE

\* `let Some(r) = running.join_next().await else { bail!(..) }`
JoinNextNone == JoinSetLen = 0

\* the values of -j: a word or a number
Word(w) == [kind |-> "word", w |-> w]

Number(n) == [kind |-> "number", n |-> n]

ThreadValues == {Word("cpu"), Word("physical"), Word("x")}
                   \cup {Number(n) : n \in 0..MaxConcurrency}

\* CustomValueParser<ThreadsConfig>::parse_ref: a NamedThreadConfig, else
\* a u64 in 1.., else an InvalidValue error
parse_ref(value) ==
    IF value.kind = "word" /\ value.w \in {"cpu", "physical"}
    THEN [ok |-> TRUE, config |-> [named |-> TRUE, name |-> value.w]]
    ELSE IF value.kind = "number" /\ value.n >= 1
         THEN [ok |-> TRUE, config |-> [named |-> FALSE, n |-> value.n]]
         ELSE [ok |-> FALSE, err |-> "InvalidValue"]

\* ThreadsConfig::get_num_threads on a machine with `cpus` logical and
\* `physical` physical processors
get_num_threads(config, cpus, physical) ==
    IF config.named
    THEN (IF config.name = "cpu" THEN cpus ELSE physical)
    ELSE config.n

\* mutant: the interrupted flag is ignored
DrainResultNoInterrupt(fails, intr) ==
    IF fails = <<>> THEN "Ok" ELSE "Failed"

\* the outcome of join_all() in the Ready(None) branch
DrainResult(fails, intr) ==
    IF fails = <<>>
    THEN (IF ~intr THEN "Ok" ELSE "Interrupted")
    ELSE "Failed"

\* mutant: the pump goes on feeding after a failed job
OnJobErrorContinue == "feed"

\* Err(e) => { running.abort_all(); running.join_all().await; bail!(..) }
OnJobError == "abort_drain"

\* --------------------------------------------------------------- Init
SchedInputs ==
    /\ max_concurrency \in 0..MaxConcurrency
    /\ input_queue \in {[i \in 1..k |-> i] : k \in 0..NumTasks}
    /\ deps_graph \in {g \in [Tasks -> SUBSET Tasks] : EdgeCount(g) <= MaxEdges}

SchedInit ==
    /\ SchedInputs
    /\ cancel = FALSE
    /\ pc = IF input_queue = <<>> THEN "feed" ELSE "build"
    /\ build_i = 1
    /\ queue = <<>>
    /\ parents = <<>>
    /\ interrupted = FALSE
    /\ failures = <<>>
    /\ result = "none"
    /\ job = [t \in Tasks |-> "idle"]
    /\ notified = <<>>
    /\ aborted = FALSE
    /\ started = <<>>

\* ------------------------------------------------------------ actions
\* for task in queue { tq.add(task, deps_graph.get(&task) or default) }
BuildQueue ==
    /\ pc = "build"
    /\ \E debug \in BOOLEAN :
          LET task == input_queue[build_i]
              tq == add_set([queue |-> queue, parents |-> parents], task,
                            deps_graph[task], debug)
          IN /\ queue' = tq.queue
             /\ parents' = tq.parents
             /\ result' = IF tq.panic THEN "Panic" ELSE result
             /\ pc' = IF tq.panic THEN "done"
                      ELSE IF build_i = Len(input_queue) THEN "feed"
                      ELSE "build"
    /\ build_i' = build_i + 1
    /\ UNCHANGED <<max_concurrency, input_queue, deps_graph, cancel,
                   interrupted, failures, job, notified, aborted, started>>
    /\ UNCHANGED notSched

\* the while condition fails: the pool is full
FeedFull ==
    /\ pc = "feed"
    /\ ~HasCapacity
    /\ pc' = "join"
    /\ UNCHANGED <<max_concurrency, input_queue, deps_graph, cancel, build_i,
                   queue, parents, interrupted, failures, result, job,
                   notified, aborted, started>>
    /\ UNCHANGED notSched

\* run_while() is false: interrupted = true; Poll::Ready(None)
FeedInterrupted ==
    /\ pc = "feed"
    /\ HasCapacity
    /\ ~RunWhile
    /\ interrupted' = TRUE
    /\ pc' = "drain"
    /\ UNCHANGED <<max_concurrency, input_queue, deps_graph, cancel, build_i,
                   queue, parents, failures, result, job, notified, aborted,
                   started>>
    /\ UNCHANGED notSched

\* Poll::Pending => break
FeedPending ==
    /\ pc = "feed"
    /\ HasCapacity
    /\ RunWhile
    /\ take_next_ready_task(queue).poll = "Pending"
    /\ pc' = "join"
    /\ UNCHANGED <<max_concurrency, input_queue, deps_graph, cancel, build_i,
                   queue, parents, interrupted, failures, result, job,
                   notified, aborted, started>>
    /\ UNCHANGED notSched

\* Poll::Ready(Some(next)) => running.spawn(run(next))
FeedSpawn ==
    /\ pc = "feed"
    /\ HasCapacity
    /\ RunWhile
    /\ LET r == take_next_ready_task(queue)
       IN /\ r.poll = "ReadySome"
          /\ queue' = r.queue
          /\ job' = [job EXCEPT ![r.task] = "running"]
          /\ started' = Append(started, r.task)
    /\ UNCHANGED <<max_concurrency, input_queue, deps_graph, cancel, pc,
                   build_i, parents, interrupted, failures, result, notified,
                   aborted>>
    /\ UNCHANGED notSched

\* Poll::Ready(None) => running.join_all().await
FeedNone ==
    /\ pc = "feed"
    /\ HasCapacity
    /\ RunWhile
    /\ take_next_ready_task(queue).poll = "ReadyNone"
    /\ pc' = "drain"
    /\ UNCHANGED <<max_concurrency, input_queue, deps_graph, cancel, build_i,
                   queue, parents, interrupted, failures, result, job,
                   notified, aborted, started>>
    /\ UNCHANGED notSched

\* join_all() of the Ready(None) branch takes one finished job
DrainOne ==
    /\ pc = "drain"
    /\ notified # <<>>
    /\ failures' = IF job[Head(notified)] = "err"
                   THEN Append(failures, Head(notified)) ELSE failures
    /\ notified' = Tail(notified)
    /\ UNCHANGED <<max_concurrency, input_queue, deps_graph, cancel, pc,
                   build_i, queue, parents, interrupted, result, job, aborted,
                   started>>
    /\ UNCHANGED notSched

\* join_all() has emptied the set: Ok, "Execution interrupted" or
\* "One of the tasks failed"
DrainReturn ==
    /\ pc = "drain"
    /\ JoinSetLen = 0
    /\ result' = DrainResult(failures, interrupted)
    /\ pc' = "done"
    /\ UNCHANGED <<max_concurrency, input_queue, deps_graph, cancel, build_i,
                   queue, parents, interrupted, failures, job, notified,
                   aborted, started>>
    /\ UNCHANGED notSched

\* join_next() on an empty set: "No more running tasks, but queue is waiting"
JoinEmpty ==
    /\ pc = "join"
    /\ JoinNextNone
    /\ result' = "Waiting"
    /\ pc' = "done"
    /\ UNCHANGED <<max_concurrency, input_queue, deps_graph, cancel, build_i,
                   queue, parents, interrupted, failures, job, notified,
                   aborted, started>>
    /\ UNCHANGED notSched

\* join_next() yields Ok(task) => tq.mark_fulfilled(&task)
JoinOk ==
    /\ pc = "join"
    /\ notified # <<>>
    /\ job[Head(notified)] = "ok"
    /\ LET tq == mark_fulfilled([queue |-> queue, parents |-> parents],
                                Head(notified))
       IN /\ queue' = tq.queue
          /\ parents' = tq.parents
          /\ pc' = IF tq.panic THEN "done" ELSE "feed"
          /\ result' = IF tq.panic THEN "Panic" ELSE result
    /\ notified' = Tail(notified)
    /\ UNCHANGED <<max_concurrency, input_queue, deps_graph, cancel, build_i,
                   interrupted, failures, job, aborted, started>>
    /\ UNCHANGED notSched

\* join_next() yields Err(e) => running.abort_all(); join_all() follows
JoinErr ==
    /\ pc = "join"
    /\ notified # <<>>
    /\ job[Head(notified)] = "err"
    /\ aborted' = TRUE
    /\ failures' = <<Head(notified)>>
    /\ notified' = Tail(notified)
    /\ pc' = OnJobError
    /\ UNCHANGED <<max_concurrency, input_queue, deps_graph, cancel, build_i,
                   queue, parents, interrupted, result, job, started>>
    /\ UNCHANGED notSched

\* join_all() after abort_all() takes one finished job; a cancelled job is a
\* JoinError, on which join_all() panics
AbortDrainOne ==
    /\ pc = "abort_drain"
    /\ notified # <<>>
    /\ LET t == Head(notified)
       IN /\ failures' = IF job[t] = "err" THEN failures \o <<t>> ELSE failures
          /\ pc' = IF job[t] = "cancelled" THEN "done" ELSE pc
          /\ result' = IF job[t] = "cancelled" THEN "Panic" ELSE result
    /\ notified' = Tail(notified)
    /\ UNCHANGED <<max_concurrency, input_queue, deps_graph, cancel, build_i,
                   queue, parents, interrupted, job, aborted, started>>
    /\ UNCHANGED notSched

\* all_failures.insert(0, e); bail!("One of the tasks failed")
AbortDrainReturn ==
    /\ pc = "abort_drain"
    /\ JoinSetLen = 0
    /\ result' = "Failed"
    /\ pc' = "done"
    /\ UNCHANGED <<max_concurrency, input_queue, deps_graph, cancel, build_i,
                   queue, parents, interrupted, failures, job, notified,
                   aborted, started>>
    /\ UNCHANGED notSched

\* the future of job t returns Ok(()) or Err(e)
JobFinish(t, r) ==
    /\ pc # "done"
    /\ job[t] = "running"
    /\ job' = [job EXCEPT ![t] = r]
    /\ notified' = Append(notified, t)
    /\ UNCHANGED <<max_concurrency, input_queue, deps_graph, cancel, pc,
                   build_i, queue, parents, interrupted, failures, result,
                   aborted, started>>
    /\ UNCHANGED notSched

\* an aborted job is cancelled at its next await point
JobCancelled(t) ==
    /\ pc # "done"
    /\ aborted
    /\ job[t] = "running"
    /\ job' = [job EXCEPT ![t] = "cancelled"]
    /\ notified' = Append(notified, t)
    /\ UNCHANGED <<max_concurrency, input_queue, deps_graph, cancel, pc,
                   build_i, queue, parents, interrupted, failures, result,
                   aborted, started>>
    /\ UNCHANGED notSched

\* the signal handler flips the flag read by run_while()
Cancel ==
    /\ pc # "done"
    /\ ~cancel
    /\ cancel' = TRUE
    /\ UNCHANGED <<max_concurrency, input_queue, deps_graph, pc, build_i,
                   queue, parents, interrupted, failures, result, job,
                   notified, aborted, started>>
    /\ UNCHANGED notSched

PumpStep ==
    \/ BuildQueue
    \/ FeedFull
    \/ FeedInterrupted
    \/ FeedPending
    \/ FeedSpawn
    \/ FeedNone
    \/ DrainOne
    \/ DrainReturn
    \/ JoinEmpty
    \/ JoinOk
    \/ JoinErr
    \/ AbortDrainOne
    \/ AbortDrainReturn

JobStep ==
    \/ \E t \in Tasks : JobFinish(t, "ok")
    \/ \E t \in Tasks : JobFinish(t, "err")
    \/ \E t \in Tasks : JobCancelled(t)

\* ================================================================
\* Workspace: loading taskfiles and resolving references
\* ================================================================
NoTaskfile == 0

\* the paths load_taskfile is called with: two spellings of the path of every
\* file, and a path at which no front-end finds a taskfile
Paths == (Files \X {1, 2}) \cup {<<NoTaskfile, 1>>}

canonicalize_none(p) == p

\* Path::canonicalize on the path of an existing file
canonicalize(p) == <<p[1], 1>>

\* find_taskfile_source: the sources the registered front-ends find. The
\* yaml front-end gives the canonical path of the file and finds nothing
\* when the path cannot be canonicalized (loader/yaml.rs,
\* path.canonicalize().ok()?), the front-end of executable taskfiles gives
\* the path as it was spelled (loader/yaml_executable.rs,
\* path.to_path_buf())
find_taskfile_source(d, p) ==
    IF p[1] = NoTaskfile THEN <<>>
    ELSE IF d[p[1]].exe THEN <<p>>
    ELSE IF d[p[1]].status = "uncanonical" THEN <<>>
    ELSE <<canonicalize(p)>>

\* TaskfileId::from_path: a TaskfileId is a canonical absolute path
TaskfileIdFromPath(p) == canonicalize(p)

Unresolved(p) == [resolved |-> FALSE, at |-> p]

Resolved(id) == [resolved |-> TRUE, at |-> id]

LoadOk(id) == [ok |-> TRUE, id |-> id, err |-> "none"]

LoadErr(e) == [ok |-> FALSE, id |-> <<>>, err |-> e]

\* Taskfile::from_yaml_file: the taskfile as written, its imports
\* unresolved; the path of its source is canonicalized for its id
from_yaml_file(d, p) ==
    [id      |-> TaskfileIdFromPath(p),
     imports |-> [i \in DOMAIN d[p[1]].imports |->
                     Unresolved(d[p[1]].imports[i])],
     tasks   |-> d[p[1]].tasks]

get_id_from_path_miss(w, p) == <<>>

\* self.tasks.get(&TaskfileId::from_path(path)).map(|t| t.id.clone())
get_id_from_path(w, p) ==
    IF TaskfileIdFromPath(p) \in DOMAIN w.tasks
    THEN <<w.tasks[TaskfileIdFromPath(p)].id>> ELSE <<>>

\* self.tasks.insert(tasks.id.clone(), tasks), counting the front-end load
WsInsert(w, tasks) ==
    [tasks |-> [k \in (DOMAIN w.tasks) \cup {tasks.id} |->
                   IF k = tasks.id THEN tasks ELSE w.tasks[k]],
     loads |-> [w.loads EXCEPT ![tasks.id[1]] = @ + 1]]

\* load_taskfile and its loop over the imports of the loaded taskfile; the
\* front-end is called, and counted in `loads`, on every call that gets past
\* the already-loaded check, whether it then returns Ok (WsInsert) or Err.
\* `stack` holds the calls that have not returned, each as its source and
\* the keys of the map it met: a call that meets the keys a call of the
\* stack met for the same source repeats it, and the recursion never ends
\* ("Hang")
RECURSIVE load_taskfile(_, _, _, _)
RECURSIVE load_imports(_, _, _, _, _)
load_taskfile(d, w, p, stack) ==
    IF find_taskfile_source(d, p) = <<>>
    THEN [w |-> w, ret |-> LoadErr("TaskfileNotFound")]
    ELSE LET source == find_taskfile_source(d, p)[1]
             taskfile_path == canonicalize(source)
             call == <<source, DOMAIN w.tasks>>
         IN
         IF call \in stack THEN [w |-> w, ret |-> LoadErr("Hang")] ELSE
         IF d[source[1]].status = "uncanonical"
         THEN [w |-> w, ret |-> LoadErr("Canonicalize")]
         ELSE IF get_id_from_path(w, taskfile_path) # <<>>
         THEN [w |-> w, ret |-> LoadOk(get_id_from_path(w, taskfile_path)[1])]
         ELSE IF d[source[1]].status = "unloadable"
         THEN [w |-> [w EXCEPT !.loads[source[1]] = @ + 1],
               ret |-> LoadErr("TaskfileLoadError")]
         ELSE LET tasks == from_yaml_file(d, source)
                  id == TaskfileIdFromPath(taskfile_path)
                  r == load_imports(d, WsInsert(w, tasks), tasks.imports, 1,
                                    stack \cup {call})
              IN IF ~r.ret.ok THEN [w |-> r.w, ret |-> r.ret]
                 ELSE IF id \notin DOMAIN r.w.tasks
                 THEN [w |-> r.w, ret |-> LoadErr("Panic")]
                 ELSE [w |-> [r.w EXCEPT !.tasks[id].imports = r.imports],
                       ret |-> LoadOk(id)]

load_imports(d, w, imports, i, stack) ==
    IF i > Len(imports)
    THEN [w |-> w, ret |-> LoadOk(<<>>), imports |-> imports]
    ELSE LET r == load_taskfile(d, w, imports[i].at, stack)
         IN IF ~r.ret.ok
            THEN [w |-> r.w, ret |-> r.ret, imports |-> imports]
            ELSE load_imports(d, r.w,
                              [imports EXCEPT ![i] = Resolved(r.ret.id)],
                              i + 1, stack)

\* Workspace::new
EmptyWorkspace == [tasks |-> <<>>, loads |-> [f \in Files |-> 0]]

NoCall == [path |-> <<>>, ret |-> LoadErr("none"), hit |-> FALSE]

\* ---- references
\* task names, and the aliases a taskfile can give to its imports
Names == 1..NumFiles

Aliases == 1..MaxImports

Name(n) == [kind |-> "Name", from |-> 0, name |-> n]

Imported(a, n) == [kind |-> "Imported", from |-> a, name |-> n]

TaskRefs == {Name(n) : n \in Names} \cup
            {Imported(a, n) : a \in Aliases, n \in Names}

None == [kind |-> "None"]

\* Workspace::resolve_task
resolve_task(w, cur, ref) ==
    IF ref.kind = "Name"
    THEN IF ref.name \in DOMAIN cur.tasks
         THEN [kind |-> "Some", tasks |-> cur, task |-> cur.tasks[ref.name]]
         ELSE None
    ELSE IF ref.from \notin DOMAIN cur.imports THEN None
    ELSE IF ~cur.imports[ref.from].resolved THEN [kind |-> "Panic"]
    ELSE IF cur.imports[ref.from].at \notin DOMAIN w THEN None
    ELSE IF ref.name \notin DOMAIN w[cur.imports[ref.from].at].tasks THEN None
    ELSE [kind |-> "Some", tasks |-> w[cur.imports[ref.from].at],
          task |-> w[cur.imports[ref.from].at].tasks[ref.name]]

\* TaskInvocation::as_resolved
as_resolved(invocation, tasks) ==
    [ref  |-> [taskfile |-> tasks.id, name |-> invocation.ref.name],
     args |-> invocation.args]

\* Workspace::resolve_invocation
resolve_invocation(w, cur, invocation) ==
    LET r == resolve_task(w, cur, invocation.ref)
    IN IF r.kind = "Some"
       THEN [kind |-> "Some", resolved |-> as_resolved(invocation, r.tasks),
             task |-> r.task]
       ELSE r

\* Workspace::resolve_invocation_task
resolve_invocation_task(w, invocation) ==
    IF invocation.ref.taskfile \notin DOMAIN w THEN None
    ELSE IF invocation.ref.name \notin DOMAIN w[invocation.ref.taskfile].tasks
    THEN None
    ELSE [kind |-> "Some", tasks |-> w[invocation.ref.taskfile],
          task |-> w[invocation.ref.taskfile].tasks[invocation.ref.name]]

\* mutant: a dep is resolved against the taskfile the run was started in
DepContextRoot(cur, tasks) == cur

\* the taskfile a dep is resolved against: the one get_instantiation returns
DepContext(cur, tasks) == tasks

\* the body of `for dep in &task.body.deps.0` of build_dependency_graph for
\* the popped invocation and one of the deps of its task
resolve_dep(w, cur, invocation, dep) ==
    LET inst == resolve_invocation_task(w, invocation)
    IN IF inst.kind # "Some" THEN [kind |-> "Panic"]
       ELSE LET r == resolve_invocation(w, DepContext(cur, inst.tasks), dep)
            IN IF r.kind = "None"
               THEN [kind |-> "TaskfileInvocationResolutionError",
                     taskfile |-> DepContext(cur, inst.tasks).id]
               ELSE r

NoQuery == [op |-> "none"]

WsIdle ==
    /\ disk = <<>>
    /\ ws = <<>>
    /\ ws_loads = <<>>
    /\ ws_call = NoCall
    /\ ws_res = NoQuery

\* ================================================================
\* Dependency resolver and sequential driver
\* ================================================================
Reverse(s) == [i \in 1..Len(s) |-> s[Len(s) + 1 - i]]

Min(S) == CHOOSE x \in S : \A y \in S : x <= y

RECURSIVE FilterNotIn(_, _)
FilterNotIn(s, S) ==
    IF s = <<>> THEN <<>>
    ELSE IF Head(s) \in S THEN FilterNotIn(Tail(s), S)
    ELSE <<Head(s)>> \o FilterNotIn(Tail(s), S)

\* graph and instantiations before the loop; `inst` lists the invocations
\* for which task.instantiate was called, in call order
EmptyGraph == [keys |-> <<>>, succ |-> <<>>, inst |-> <<>>]

\* mutant: the instantiated task is not kept
get_instantiation_forget(insts, inv) == insts

\* get_instantiation: an Occupied entry is reused, a Vacant one is filled
\* by task.instantiate(&invocation.args)
get_instantiation(insts, inv) ==
    IF inv \in Range(insts) THEN insts ELSE Append(insts, inv)

\* node.insert(dep) for the deps from the i-th on: a LinkedHashSet holds a
\* value once, and a value inserted again moves to the end
RECURSIVE node_insert(_, _, _)
node_insert(node, deps, i) ==
    IF i > Len(deps) THEN node
    ELSE node_insert(SelectSeq(node, LAMBDA x : x # deps[i]) \o <<deps[i]>>,
                     deps, i + 1)

\* graph.entry(invocation).or_insert_with(LinkedHashSet::new), then
\* get_instantiation and node.insert(dep) for every dep. `graph` is a std
\* HashMap: `keys` is the order in which graph.keys() iterates, and the new
\* key lands behind `at` of the old ones, wherever the hasher of the process
\* puts it
GraphInsert(g, inv, deps, at) ==
    [keys |-> SubSeq(g.keys, 1, at) \o <<inv>>
                 \o SubSeq(g.keys, at + 1, Len(g.keys)),
     succ |-> [k \in (DOMAIN g.succ) \cup {inv} |->
                  IF k = inv THEN node_insert(<<>>, deps, 1) ELSE g.succ[k]],
     inst |-> get_instantiation(g.inst, inv)]

\* the while loop of build_dependency_graph over the VecDeque `queue`;
\* ats[n] is the place the hasher gives to the n-th key
RECURSIVE build_loop(_, _, _, _, _)
build_loop(deps, q, visited, g, ats) ==
    IF q = <<>> THEN g
    ELSE IF Head(q) \in visited
    THEN build_loop(deps, Tail(q), visited, g, ats)
    ELSE build_loop(deps,
                    Tail(q) \o FilterNotIn(deps[Head(q)], visited \cup {Head(q)}),
                    visited \cup {Head(q)},
                    GraphInsert(g, Head(q), deps[Head(q)],
                                ats[Len(g.keys) + 1]),
                    ats)

\* build_dependency_graph: breadth-first from the requested invocation
build_dependency_graph(deps, root, ats) ==
    build_loop(deps, <<root>>, {}, EmptyGraph, ats)

\* the places a hasher can give to the n keys of a graph, one after another
RECURSIVE KeyPlaces(_)
KeyPlaces(n) ==
    IF n = 0 THEN {<<>>}
    ELSE {Append(a, at) : a \in KeyPlaces(n - 1), at \in 0..(n - 1)}

\* graph.get(node): None is treated as no dependency
GraphGet(g, node) == IF node \in DOMAIN g.succ THEN g.succ[node] ELSE <<>>

\* mutant: the first dep is followed whether or not it is being visited
VisitingDepsAny(g, visiting, cur) == 1..Len(g.succ[cur])

\* indices of the deps of `current` that are in `visiting`
VisitingDeps(g, visiting, cur) ==
    {i \in 1..Len(g.succ[cur]) : g.succ[cur][i] \in visiting}

\* the while loop of reconstruct_cycle; a walk that can no longer reach
\* `start` never leaves the loop (terminates = FALSE)
RECURSIVE reconstruct_walk(_, _, _, _, _)
reconstruct_walk(start, g, visiting, cur, path) ==
    IF cur \notin DOMAIN g.succ
    THEN [path |-> path, terminates |-> TRUE]
    ELSE IF VisitingDeps(g, visiting, cur) = {} \/ Len(path) > Len(g.keys) + 1
    THEN [path |-> path, terminates |-> FALSE]
    ELSE LET dep == g.succ[cur][Min(VisitingDeps(g, visiting, cur))]
         IN IF dep = start
            THEN [path |-> Append(path, dep), terminates |-> TRUE]
            ELSE reconstruct_walk(start, g, visiting, dep, Append(path, dep))

\* reconstruct_cycle
reconstruct_cycle(start, g, visiting) ==
    reconstruct_walk(start, g, visiting, start, <<start>>)

SortState0 ==
    [visited |-> {}, visiting |-> {}, result |-> <<>>, failed |-> FALSE,
     cycle |-> <<>>, terminates |-> TRUE]

\* visit_node and its loop over the dependencies of the node
RECURSIVE visit_node(_, _, _)
RECURSIVE visit_deps(_, _, _, _)
visit_node(node, g, st) ==
    IF node \in st.visiting
    THEN LET c == reconstruct_cycle(node, g, st.visiting)
         IN [st EXCEPT !.failed = TRUE, !.cycle = c.path,
                       !.terminates = c.terminates]
    ELSE IF node \in st.visited THEN st
    ELSE LET s1 == visit_deps(GraphGet(g, node), 1, g,
                              [st EXCEPT !.visiting = @ \cup {node}])
         IN IF s1.failed THEN s1
            ELSE [s1 EXCEPT !.visiting = @ \ {node},
                            !.visited = @ \cup {node},
                            !.result = Append(@, node)]

visit_deps(deps, i, g, st) ==
    IF i > Len(deps) THEN st
    ELSE LET s1 == visit_node(deps[i], g, st)
         IN IF s1.failed THEN s1 ELSE visit_deps(deps, i + 1, g, s1)

\* for node in graph.keys() { if !visited.contains(node) { visit_node(..)? } }
RECURSIVE sort_keys(_, _, _)
sort_keys(g, i, st) ==
    IF i > Len(g.keys) THEN st
    ELSE LET s1 == IF g.keys[i] \notin st.visited
                   THEN visit_node(g.keys[i], g, st) ELSE st
         IN IF s1.failed THEN s1 ELSE sort_keys(g, i + 1, s1)

\* mutant: the post-order is returned as built, without result.reverse()
topological_sort_unreversed(g) ==
    LET st == sort_keys(g, 1, SortState0)
    IN [ok |-> ~st.failed,
        list |-> IF st.failed THEN <<>> ELSE st.result,
        cycle |-> st.cycle, terminates |-> st.terminates]

\* topological_sort
topological_sort(g) ==
    LET st == sort_keys(g, 1, SortState0)
    IN [ok |-> ~st.failed,
        list |-> IF st.failed THEN <<>> ELSE Reverse(st.result),
        cycle |-> st.cycle, terminates |-> st.terminates]

\* for invocation in sorted.iter().rev()
RunOrder(list) == Reverse(list)

\* ---- inputs
\* the number of deps declared by tasks 1..i of a shape v
RECURSIVE Total(_, _)
Total(v, i) == IF i = 0 THEN 0 ELSE Total(v, i - 1) + v[i]

\* how many deps each of the tasks 1..k declares, at most `budget` together
Shapes(k, budget) == {v \in [1..k -> 0..budget] : Total(v, k) <= budget}

\* the dependency lists of tasks 1..Len(v): the flat list e cut by the shape v
Split(e, v) ==
    [i \in 1..Len(v) |-> SubSeq(e, Total(v, i - 1) + 1, Total(v, i))]

\* no dep is listed twice (the deps of a key of the graph are a
\* LinkedHashSet)
NoDup(d) == Cardinality(Range(d)) = Len(d)

\* f is a taskfile of k tasks declaring at most MaxRunDeps deps together;
\* a task may list a dep more than once
IsTaskfile(f, k) ==
    \E v \in Shapes(k, MaxRunDeps) :
        \E e \in [1..Total(v, k) -> RunTasks] : f = Split(e, v)

RunIdle ==
    /\ task_deps = <<>>
    /\ req = 0
    /\ rpc = "off"
    /\ graph = EmptyGraph
    /\ sorted = <<>>
    /\ cycle = <<>>
    /\ run_i = 1
    /\ current = 0
    /\ entered = <<>>
    /\ completed = {}
    /\ run_result = "none"

SchedIdle ==
    /\ max_concurrency = 0
    /\ input_queue = <<>>
    /\ deps_graph = [t \in Tasks |-> {}]
    /\ cancel = FALSE
    /\ pc = "off"
    /\ build_i = 1
    /\ queue = <<>>
    /\ parents = <<>>
    /\ interrupted = FALSE
    /\ failures = <<>>
    /\ result = "none"
    /\ job = [t \in Tasks |-> "idle"]
    /\ notified = <<>>
    /\ aborted = FALSE
    /\ started = <<>>

\* run is called on a taskfile for its task 1
RunInit ==
    /\ RestIdle
    /\ SchedIdle
    /\ WsIdle
    /\ IsTaskfile(task_deps, NumRunTasks)
    /\ req = 1
    /\ rpc = "build"
    /\ graph = EmptyGraph
    /\ sorted = <<>>
    /\ cycle = <<>>
    /\ run_i = 1
    /\ current = 0
    /\ entered = <<>>
    /\ completed = {}
    /\ run_result = "none"

\* topological_sort is called on a graph with keys 1..k in insertion order
SortInit ==
    /\ RestIdle
    /\ SchedIdle
    /\ WsIdle
    /\ task_deps = <<>>
    /\ req = 0
    /\ rpc = "sort"
    /\ \E k \in 0..NumRunTasks :
           \E v \in Shapes(k, MaxDeps) :
               \E e \in [1..Total(v, k) -> RunTasks] :
                   /\ \A i \in 1..k : NoDup(Split(e, v)[i])
                   /\ graph = [keys |-> [i \in 1..k |-> i],
                               succ |-> Split(e, v)]
    /\ sorted = <<>>
    /\ cycle = <<>>
    /\ run_i = 1
    /\ current = 0
    /\ entered = <<>>
    /\ completed = {}
    /\ run_result = "none"

\* let (deps_graph, instantiations) = build_dependency_graph(..)?
RunBuild ==
    /\ rpc = "build"
    /\ LET first == [n \in 1..NumRunTasks |-> 0]
           size == Len(build_dependency_graph(task_deps, req, first).keys)
       IN \E ats \in KeyPlaces(size) :
             graph' = build_dependency_graph(task_deps, req, ats)
    /\ rpc' = "sort"
    /\ UNCHANGED <<task_deps, req, sorted, cycle, run_i, current, entered,
                   completed, run_result>>
    /\ UNCHANGED notRun

\* mutant: the error of topological_sort is dropped and the loop is entered
OnSortErrorIgnore == "loop"

\* the `?` on topological_sort(&deps_graph): run returns the error
OnSortError == "done"

\* let sorted = topological_sort(&deps_graph)?
RunSort ==
    /\ rpc = "sort"
    /\ LET r == topological_sort(graph)
       IN /\ sorted' = r.list
          /\ cycle' = r.cycle
          /\ rpc' = IF r.ok THEN "loop" ELSE OnSortError
          /\ run_result' = IF r.ok THEN run_result
                           ELSE IF r.terminates THEN "CycleDetected"
                           ELSE "Hang"
    /\ UNCHANGED <<task_deps, req, graph, run_i, current, entered, completed>>
    /\ UNCHANGED notRun

\* execution.enter_task(invocation) for the next invocation of the loop
RunEnter ==
    /\ rpc = "loop"
    /\ current = 0
    /\ run_i <= Len(sorted)
    /\ current' = RunOrder(sorted)[run_i]
    /\ entered' = Append(entered, RunOrder(sorted)[run_i])
    /\ UNCHANGED <<task_deps, req, rpc, graph, sorted, cycle, run_i,
                   completed, run_result>>
    /\ UNCHANGED notRun

\* maybe_run_single_task(..) returned Ok
RunTaskOk ==
    /\ rpc = "loop"
    /\ current # 0
    /\ completed' = completed \cup {current}
    /\ current' = 0
    /\ run_i' = run_i + 1
    /\ UNCHANGED <<task_deps, req, rpc, graph, sorted, cycle, entered,
                   run_result>>
    /\ UNCHANGED notRun

\* maybe_run_single_task(..)? returned Err, which run returns as
\* RunError::ExecutionError, or panicked (a step that exits with a failure
\* status, an output older than its newest source), which unwinds through run
RunTaskErr(panics) ==
    /\ rpc = "loop"
    /\ current # 0
    /\ current' = 0
    /\ run_result' = IF panics THEN "Panic" ELSE "ExecutionError"
    /\ rpc' = "done"
    /\ UNCHANGED <<task_deps, req, graph, sorted, cycle, run_i, entered,
                   completed>>
    /\ UNCHANGED notRun

\* the loop is over: Ok(())
RunReturn ==
    /\ rpc = "loop"
    /\ current = 0
    /\ run_i > Len(sorted)
    /\ run_result' = "Ok"
    /\ rpc' = "done"
    /\ UNCHANGED <<task_deps, req, graph, sorted, cycle, run_i, current,
                   entered, completed>>
    /\ UNCHANGED notRun

\* ---- the workspace under repeated calls of load_taskfile
LoadStatus == {"ok", "unloadable", "uncanonical"}

\* what the front-ends make of a file: `exe` for a taskfile of the
\* front-end of executable taskfiles; a file is loadable, or its front-end
\* fails to load it, or its path cannot be canonicalized
FileKinds == [status : LoadStatus, exe : BOOLEAN]

\* file f defines the tasks named 1..f, each with a body of its own
DiskTasks(f) == [n \in 1..f |-> [name |-> n, body |-> <<f, n>>]]

\* a workspace is created empty over some files on disk
WsInit ==
    /\ RestIdle
    /\ SchedIdle
    /\ RunIdle
    /\ \E st \in [Files -> FileKinds] :
          \E v \in Shapes(NumFiles, MaxImports) :
             \E e \in [1..Total(v, NumFiles) -> Paths] :
                disk = [f \in Files |-> [status  |-> st[f].status,
                                         exe     |-> st[f].exe,
                                         imports |-> Split(e, v)[f],
                                         tasks   |-> DiskTasks(f)]]
    /\ ws = EmptyWorkspace.tasks
    /\ ws_loads = EmptyWorkspace.loads
    /\ ws_call = NoCall
    /\ ws_res = NoQuery

\* workspace.load_taskfile(p); a recursion without end takes the process
\* with it, and nothing of the call is kept
WsLoad(p) ==
    /\ LET r == load_taskfile(disk, [tasks |-> ws, loads |-> ws_loads], p, {})
           hang == r.ret.err = "Hang"
       IN /\ hang \/ \A f \in Files : r.w.loads[f] <= MaxLoads
          /\ ws' = IF hang THEN ws ELSE r.w.tasks
          /\ ws_loads' = IF hang THEN ws_loads ELSE r.w.loads
          /\ ws_call' = [path |-> p, ret |-> r.ret,
                         hit |-> r.ret.ok /\ r.w.loads = ws_loads]
    /\ ws_res' = NoQuery
    /\ UNCHANGED disk
    /\ UNCHANGED notWs

\* the import paths written in taskfiles: canonical, or of no taskfile
ImportPaths == (Files \X {1}) \cup {<<NoTaskfile, 1>>}

\* a workspace is created empty over loadable files
ResolveInit ==
    /\ RestIdle
    /\ SchedIdle
    /\ RunIdle
    /\ \E v \in Shapes(NumFiles, MaxImports) :
          \E e \in [1..Total(v, NumFiles) -> ImportPaths] :
             disk = [f \in Files |-> [status  |-> "ok",
                                      exe     |-> FALSE,
                                      imports |-> Split(e, v)[f],
                                      tasks   |-> DiskTasks(f)]]
    /\ ws = EmptyWorkspace.tasks
    /\ ws_loads = EmptyWorkspace.loads
    /\ ws_call = NoCall
    /\ ws_res = NoQuery

\* workspace.resolve_task(T, r) for a stored taskfile T, after a load
\* returned Ok (one lookup is recorded until the next load)
WsResolveTask(k, r) ==
    /\ ws_call.ret.ok
    /\ ws_res = NoQuery
    /\ k \in DOMAIN ws
    /\ ws_res' = [op |-> "resolve_task", cur |-> k, ref |-> r,
                  out |-> resolve_task(ws, ws[k], r)]
    /\ UNCHANGED <<disk, ws, ws_loads, ws_call>>
    /\ UNCHANGED notWs

\* build_dependency_graph, called with the taskfile of the last load as
\* `current`, resolves the dep `dep` of the task of the popped invocation (c, n)
WsResolveDep(c, n, dep) ==
    /\ ws_call.ret.ok
    /\ ws_res = NoQuery
    /\ c \in DOMAIN ws
    /\ n \in DOMAIN ws[c].tasks
    /\ ws_res' = [op |-> "resolve_dep", cur |-> ws_call.ret.id,
                  invocation |-> [taskfile |-> c, name |-> n], ref |-> dep,
                  out |-> resolve_dep(ws, ws[ws_call.ret.id],
                                      [ref |-> [taskfile |-> c, name |-> n],
                                       args |-> <<>>],
                                      [ref |-> dep, args |-> <<>>])]
    /\ UNCHANGED <<disk, ws, ws_loads, ws_call>>
    /\ UNCHANGED notWs

\* ================================================================
\* Argument check of a task instantiation
\* ================================================================
Keys == 1..NumKeys

\* serde_json::Value, as far as the type checks look at it
JString(x) == [kind |-> "string", s |-> x]

JNumber == [kind |-> "number"]

JBool == [kind |-> "boolean"]

JNull == [kind |-> "null"]

JArray(items) == [kind |-> "array", items |-> items]

Jsons == {JString("a"), JString("b"), JNumber, JBool, JNull,
          JArray(<<JNumber>>), JArray(<<JNumber, JBool>>)}

\* enum ArgType
TString == [ty |-> "String"]

TSelect(options) == [ty |-> "Select", options |-> options]

TNumber == [ty |-> "Number"]

TBoolean == [ty |-> "Boolean"]

TPath == [ty |-> "Path"]

TArray(inner) == [ty |-> "Array", inner |-> inner]

ArgTypes == {TString, TSelect(<<"a">>), TNumber, TBoolean, TPath,
             TArray(TNumber)}

\* ArgType::validate
RECURSIVE validate(_, _)
validate(ty, value) ==
    CASE ty.ty = "String"  -> value.kind = "string"
      [] ty.ty = "Select"  -> /\ value.kind = "string"
                              /\ value.s \in Range(ty.options)
      [] ty.ty = "Number"  -> value.kind = "number"
      [] ty.ty = "Boolean" -> value.kind = "boolean"
      [] ty.ty = "Path"    -> value.kind = "string"
      [] ty.ty = "Array"   -> /\ value.kind = "array"
                              /\ \A i \in 1..Len(value.items) :
                                    validate(ty.inner, value.items[i])

TypeOk == [ok |-> TRUE]

MismatchedType(ty) == [ok |-> FALSE, err |-> "MismatchedType", expected |-> ty]

InvalidOption(options, x) ==
    [ok |-> FALSE, err |-> "InvalidOption", expected |-> options, value |-> x]

\* utils::type_checking::check_type
RECURSIVE check_type(_, _)
check_type(ty, value) ==
    CASE ty.ty = "String" ->
           IF value.kind = "string" THEN TypeOk ELSE MismatchedType(ty)
      [] ty.ty = "Select" ->
           IF value.kind # "string" THEN MismatchedType(ty)
           ELSE IF \E i \in 1..Len(ty.options) : value.s = ty.options[i]
                THEN TypeOk
                ELSE InvalidOption(ty.options, value.s)
      [] ty.ty = "Number" ->
           IF value.kind = "boolean" THEN TypeOk
           ELSE IF value.kind = "number" THEN TypeOk ELSE MismatchedType(ty)
      [] ty.ty = "Boolean" ->
           IF value.kind = "boolean" THEN TypeOk ELSE MismatchedType(ty)
      [] ty.ty = "Path" ->
           IF value.kind = "string" THEN TypeOk ELSE MismatchedType(ty)
      [] ty.ty = "Array" ->
           IF /\ value.kind = "array"
              /\ \A i \in 1..Len(value.items) :
                    check_type(ty.inner, value.items[i]).ok
           THEN TypeOk
           ELSE MismatchedType(ty)

\* Option<Json> of Param.default
NoDefault == [some |-> FALSE]

SomeDefault(value) == [some |-> TRUE, value |-> value]

\* struct Param
Param(ty, default) == [ty |-> ty, default |-> default]

ArgsOk == [ok |-> TRUE]

NotFound(key) == [ok |-> FALSE, err |-> "NotFound", key |-> key]

TypeError(key, err) == [ok |-> FALSE, err |-> "TypeError", key |-> key,
                        detail |-> err]

\* the second loop of check_args: args is a BTreeMap, visited by ascending key
RECURSIVE check_each_arg(_, _, _)
check_each_arg(params, args, key) ==
    IF key > NumKeys THEN ArgsOk
    ELSE IF key \notin DOMAIN args THEN check_each_arg(params, args, key + 1)
    ELSE IF key \notin DOMAIN params THEN NotFound(key)
    ELSE LET t == check_type(params[key].ty, args[key])
         IN IF ~t.ok THEN TypeError(key, t)
            ELSE check_each_arg(params, args, key + 1)

\* Task::check_args; params is a HashMap, and `first` is the param without
\* an argument that its iteration meets first (any of them, 0 when none)
check_args(params, args, first) ==
    IF first # 0 THEN NotFound(first) ELSE check_each_arg(params, args, 1)

MissingArgs(params, args) == DOMAIN params \ DOMAIN args

\* the value written as the default of a param of type ty
DefaultOf(ty) ==
    CASE ty.ty = "String"  -> JString("b")
      [] ty.ty = "Select"  -> JString(ty.options[1])
      [] ty.ty = "Number"  -> JNumber
      [] ty.ty = "Boolean" -> JBool
      [] ty.ty = "Path"    -> JString("a")
      [] ty.ty = "Array"   -> JArray(<<JNumber>>)

\* a task with some params is about to be instantiated with some args
ArgsInit ==
    /\ SchedIdle
    /\ RunIdle
    /\ WsIdle
    /\ TrigIdle
    /\ CleanIdle
    /\ ShellIdle
    /\ AfterIdle
    /\ \E pk \in SUBSET Keys : \E ak \in SUBSET Keys :
          \E ty \in [pk -> ArgTypes] : \E d \in [pk -> BOOLEAN] :
             \E a \in [ak -> Jsons] :
                /\ inst_params =
                      [k \in pk |-> Param(ty[k], IF d[k]
                                                 THEN SomeDefault(DefaultOf(ty[k]))
                                                 ELSE NoDefault)]
                /\ inst_args = a
    /\ inst_ret = NotCalled

\* task.instantiate(args) reaches self.check_args(&args)
CheckArgs ==
    /\ inst_ret = NotCalled
    /\ \E first \in Keys \cup {0} :
          /\ IF MissingArgs(inst_params, inst_args) = {}
             THEN first = 0
             ELSE first \in MissingArgs(inst_params, inst_args)
          /\ inst_ret' = check_args(inst_params, inst_args, first)
    /\ UNCHANGED <<inst_params, inst_args>>
    /\ UNCHANGED notArgs

\* ================================================================
\* Up-to-date oracle: NaiveTriggerChecker and maybe_run_single_task
\* ================================================================
\* the resolved paths of sources and outputs; each is a regular file when
\* it exists
FsPaths == 1..NumPaths

Times == 1..MaxTime

Missing == [exists |-> FALSE]

FileAt(t) == [exists |-> TRUE, mtime |-> t]

\* what a path can hold
FileStates == {Missing} \cup {FileAt(t) : t \in Times}

NoTimestamp == [some |-> FALSE]

SomeTimestamp(t) == [some |-> TRUE, ts |-> t]

TsOk(newest) == [ok |-> TRUE, newest |-> newest]

TsErr(path) == [ok |-> FALSE, err |-> "SourceMissing", path |-> path]

\* the loop of newest_input_timestamp from source i on
RECURSIVE newest_from(_, _, _, _, _)
newest_from(task, nc, f, i, newest) ==
    IF i > Len(task.sources) THEN TsOk(newest)
    ELSE LET path == task.sources[i]
         IN IF path \in DOMAIN nc /\ nc[path]
            THEN newest_from(task, nc, f, i + 1, newest)
            ELSE IF ~f[path].exists THEN TsErr(path)
            ELSE LET timestamp == f[path].mtime
                 IN IF newest.some
                    THEN IF timestamp > newest.ts
                         THEN newest_from(task, nc, f, i + 1,
                                          SomeTimestamp(timestamp))
                         ELSE newest_from(task, nc, f, i + 1, newest)
                    ELSE newest_from(task, nc, f, i + 1,
                                     SomeTimestamp(timestamp))

\* mutant: a source marked not changed is looked at like any other
newest_input_timestamp_all(task, nc, f) ==
    newest_from(task, <<>>, f, 1, NoTimestamp)

newest_input_timestamp(task, nc, f) == newest_from(task, nc, f, 1, NoTimestamp)

OlderOrEqual(output_timestamp, newest_source_timestamp) ==
    output_timestamp <= newest_source_timestamp

\* `output_timestamp < newest_source_timestamp`
Older(output_timestamp, newest_source_timestamp) ==
    output_timestamp < newest_source_timestamp

ChangedOnly(changed, phony) == changed

\* `changed || task.body.phony`
ChangedOrPhony(changed, phony) == changed \/ phony

ShouldOk(b, hashes) == [ok |-> TRUE, run |-> b, hashes |-> hashes]

ShouldErr(e) == [ok |-> FALSE, err |-> e]

\* the loop of sources_changed from output i on
RECURSIVE outputs_from(_, _, _, _, _, _)
outputs_from(task, f, newest, i, changed, hashes) ==
    IF i > Len(task.outputs)
    THEN ShouldOk(ChangedOrPhony(changed, task.phony), hashes)
    ELSE LET path == task.outputs[i]
         IN IF ~f[path].exists
            THEN outputs_from(task, f, newest, i + 1, TRUE, hashes)
            ELSE outputs_from(task, f, newest, i + 1,
                              changed \/ (newest.some
                                          /\ Older(f[path].mtime, newest.ts)),
                              hashes \cup {path})

sources_changed(task, nc, f) ==
    LET n == newest_input_timestamp(task, nc, f)
    IN IF ~n.ok THEN ShouldErr("SourceChangeCheckError")
       ELSE outputs_from(task, f, n.newest, 1, FALSE, {})

\* mutant: a task without steps is compared with its sources like any other
should_run_without_steps(task, nc, f) ==
    IF Len(task.outputs) = 0 THEN ShouldOk(TRUE, {})
    ELSE sources_changed(task, nc, f)

\* NaiveTriggerChecker::should_run
should_run(task, nc, f) ==
    LET has_no_outputs == Len(task.outputs) = 0
        has_no_command == ~task.steps
    IN IF has_no_outputs THEN ShouldOk(TRUE, {})
       ELSE IF has_no_command THEN ShouldOk(FALSE, {})
       ELSE sources_changed(task, nc, f)

\* mutant: an output found changed by an earlier job is judged again
RECURSIVE check_from_again(_, _, _, _, _, _, _, _)
check_from_again(task, f, hashes, dirty, executed, newest, i, nc) ==
    IF i > Len(task.outputs) THEN [nc |-> nc, ret |-> "Ok"]
    ELSE LET path == task.outputs[i]
             same == ~executed \/ path \notin dirty
             nc1 == IF path \in hashes
                    THEN [q \in DOMAIN nc \cup {path} |->
                             IF q = path THEN same ELSE nc[q]]
                    ELSE IF path \in DOMAIN nc THEN nc
                         ELSE [q \in DOMAIN nc \cup {path} |->
                                  IF q = path THEN FALSE ELSE nc[q]]
         IN IF ~f[path].exists
            THEN [nc |-> nc, ret |-> "Err", err |-> "OutputFileNotFound"]
            ELSE IF newest.some /\ Older(f[path].mtime, newest.ts)
                 THEN [nc |-> nc1, ret |-> "Panic"]
                 ELSE check_from_again(task, f, hashes, dirty, executed,
                                       newest, i + 1, nc1)

\* the loop of check_outputs from output i on; returns the new not_changed
\* and "Ok", "Err" or "Panic"
RECURSIVE check_from(_, _, _, _, _, _, _, _)
check_from(task, f, hashes, dirty, executed, newest, i, nc) ==
    IF i > Len(task.outputs) THEN [nc |-> nc, ret |-> "Ok"]
    ELSE LET path == task.outputs[i]
             same == ~executed \/ path \notin dirty
             nc1 == IF path \in hashes
                    THEN IF path \in DOMAIN nc /\ ~nc[path] THEN nc
                         ELSE [q \in DOMAIN nc \cup {path} |->
                                  IF q = path THEN same ELSE nc[q]]
                    ELSE IF path \in DOMAIN nc THEN nc
                         ELSE [q \in DOMAIN nc \cup {path} |->
                                  IF q = path THEN FALSE ELSE nc[q]]
         IN IF ~f[path].exists
            THEN [nc |-> nc, ret |-> "Err", err |-> "OutputFileNotFound"]
            ELSE IF newest.some /\ Older(f[path].mtime, newest.ts)
                 THEN [nc |-> nc1, ret |-> "Panic"]
                 ELSE check_from(task, f, hashes, dirty, executed, newest,
                                 i + 1, nc1)

\* mutant: the hashes taken before the run are not looked up
check_outputs_no_hashes(task, nc, f, hashes, dirty, executed) ==
    LET n == newest_input_timestamp(task, nc, f)
    IN IF ~n.ok
       THEN [nc |-> nc, ret |-> "Err", err |-> "InputTimestampError"]
       ELSE check_from(task, f, {}, dirty, executed, n.newest, 1, nc)

\* NaiveTriggerChecker::check_outputs
check_outputs(task, nc, f, hashes, dirty, executed) ==
    LET n == newest_input_timestamp(task, nc, f)
    IN IF ~n.ok
       THEN [nc |-> nc, ret |-> "Err", err |-> "InputTimestampError"]
       ELSE check_from(task, f, hashes, dirty, executed, n.newest, 1, nc)

\* the elements of a set of paths in ascending order
RECURSIVE Ascending(_)
Ascending(S) ==
    IF S = {} THEN <<>>
    ELSE LET m == CHOOSE x \in S : \A y \in S : x <= y
         IN <<m>> \o Ascending(S \ {m})

\* a run starts: a fresh checker, one task of the jobs list, some files
\* at the paths `paths`
TrigStart(paths) ==
    /\ SchedIdle
    /\ RunIdle
    /\ WsIdle
    /\ ArgsIdle
    /\ CleanIdle
    /\ ShellIdle
    /\ AfterIdle
    /\ fs \in [paths -> FileStates]
    /\ \E o \in SUBSET paths, src \in SUBSET paths, ph \in BOOLEAN,
          st \in BOOLEAN :
          trg_task = [outputs |-> Ascending(o), sources |-> Ascending(src),
                      phony |-> ph, steps |-> st]
    /\ not_changed = <<>>
    /\ trg_pc = "should_run"
    /\ should_ret = NotReturned
    /\ output_hashes = {}
    /\ rewritten = {}
    /\ regenerated = {}
    /\ task_ret = "none"

TrigInit == TrigStart(FsPaths)

\* trigger_checker.should_run(task, &mut context)
TrigShouldRun ==
    /\ trg_pc = "should_run"
    /\ LET r == should_run(trg_task, not_changed, fs)
       IN /\ should_ret' = r
          /\ output_hashes' = IF r.ok THEN r.hashes ELSE {}
          /\ trg_pc' = IF ~r.ok THEN "done"
                       ELSE IF r.run THEN "execute" ELSE "up_to_date"
          /\ task_ret' = IF ~r.ok THEN "ShouldRunCheckError" ELSE task_ret
    /\ rewritten' = {}
    /\ UNCHANGED <<fs, trg_task, not_changed, regenerated>>
    /\ UNCHANGED notTrig

\* execution_context.run().execute(..) returns Ok. The steps are shell
\* commands: they leave the files as `after`, any path written, removed or
\* given any modification time, and `dirty` are the hashed outputs whose
\* content is no longer the content hashed. An output is regenerated when
\* it was hashed and the steps wrote it again, with a new modification time
\* and the same content
TrigExecuteOk(after, dirty) ==
    /\ trg_pc = "execute"
    /\ trg_task.steps \/ (after = fs /\ dirty = {})
    /\ dirty \subseteq {q \in output_hashes : after[q].exists}
    /\ fs' = after
    /\ rewritten' = dirty
    /\ regenerated' = regenerated \cup
          {q \in output_hashes \ dirty :
              after[q].exists /\ after[q].mtime # fs[q].mtime}
    /\ trg_pc' = "check_outputs"
    /\ UNCHANGED <<trg_task, not_changed, should_ret, output_hashes, task_ret>>
    /\ UNCHANGED notTrig

\* a step fails after the steps before it left the files as `after`:
\* execute returns Err when the child of the step cannot be spawned, and
\* exec_shell panics when the child exits with a failure status
TrigExecuteErr(after, panics) ==
    /\ trg_pc = "execute"
    /\ trg_task.steps
    /\ fs' = after
    /\ trg_pc' = "done"
    /\ task_ret' = IF panics THEN "Panic" ELSE "CommandExecutorError"
    /\ UNCHANGED <<trg_task, not_changed, should_ret, output_hashes,
                   rewritten, regenerated>>
    /\ UNCHANGED notTrig

\* mutant: a skipped task returns without its outputs being checked
TrigUpToDateReturns ==
    /\ trg_pc = "up_to_date"
    /\ trg_pc' = "done"
    /\ task_ret' = "Ok"
    /\ UNCHANGED <<fs, trg_task, not_changed, should_ret, output_hashes,
                   rewritten, regenerated>>
    /\ UNCHANGED notTrig

\* execution_context.up_to_date()
TrigUpToDate ==
    /\ trg_pc = "up_to_date"
    /\ trg_pc' = "check_outputs"
    /\ UNCHANGED <<fs, trg_task, not_changed, should_ret, output_hashes,
                   rewritten, regenerated, task_ret>>
    /\ UNCHANGED notTrig

\* trigger_checker.check_outputs(task, &mut context, should_run)
TrigCheckOutputs ==
    /\ trg_pc = "check_outputs"
    /\ LET r == check_outputs(trg_task, not_changed, fs, output_hashes,
                              rewritten, should_ret.run)
       IN /\ not_changed' = r.nc
          /\ regenerated' = {q \in regenerated :
                                q \in DOMAIN r.nc /\ r.nc[q]}
          /\ task_ret' = CASE r.ret = "Ok"    -> "Ok"
                           [] r.ret = "Err"   -> r.err
                           [] r.ret = "Panic" -> "Panic"
    /\ trg_pc' = "done"
    /\ UNCHANGED <<fs, trg_task, should_ret, output_hashes, rewritten>>
    /\ UNCHANGED notTrig

\* the next job of the same run has the same body (the task invoked again),
\* or a new run starts with a fresh checker
TrigAgain(fresh) ==
    /\ trg_pc = "done"
    /\ task_ret = "Ok" \/ fresh
    /\ not_changed' = IF fresh THEN <<>> ELSE not_changed
    /\ trg_pc' = "should_run"
    /\ should_ret' = NotReturned
    /\ output_hashes' = {}
    /\ rewritten' = {}
    /\ regenerated' = IF fresh THEN {} ELSE regenerated
    /\ task_ret' = "none"
    /\ UNCHANGED <<fs, trg_task>>
    /\ UNCHANGED notTrig

\* ================================================================
\* Clean: clean_instantiated_task and the paths it removes
\* ================================================================
\* A path is absolute and is the sequence of its components below "/".
\* The file system holds the directories /d (the directory of the
\* taskfile), /d/s and /o, and files named f in some of /, /d, /d/s, /o.
ParentDir == ".."

Comps == {"d", "s", "o", "f", ParentDir}

\* tasks.dir
TaskfileDir == <<"d">>

Dirs == {<<>>, <<"d">>, <<"d", "s">>, <<"o">>}

FileNodes == {<<"f">>, <<"d", "f">>, <<"d", "s", "f">>, <<"o", "f">>}

Workdirs == {<<"d">>, <<"d", "s">>, <<"o">>}

\* OutputPath::File(string) and OutputPath::Directory(string) as declared
OutputPaths ==
    {[tag |-> t, abs |-> a, comps |-> c] :
        t \in {"File", "Directory"}, a \in BOOLEAN,
        c \in UNION {[1..n -> Comps] : n \in 1..MaxComps}}

\* PathBuf::push: an absolute argument replaces the path
push(path, out) == IF out.abs THEN out.comps ELSE path \o out.comps

\* OutputPath::resolve
resolve(out, workdir) == [tag |-> out.tag, path |-> push(workdir, out)]

\* Path::strip_prefix compares components and does not interpret ParentDir
strip_prefix(path, base) ==
    /\ Len(base) <= Len(path)
    /\ SubSeq(path, 1, Len(base)) = base

IsDir(node) == node \in Dirs

\* how the operating system resolves `path` from node `at` on: the node it
\* names, if every component on the way exists
RECURSIVE lookup(_, _, _, _)
lookup(t, at, path, i) ==
    IF i > Len(path) THEN [found |-> TRUE, at |-> at]
    ELSE IF ~IsDir(at) THEN [found |-> FALSE]
    ELSE IF path[i] = ParentDir
         THEN lookup(t, IF at = <<>> THEN at ELSE SubSeq(at, 1, Len(at) - 1),
                     path, i + 1)
         ELSE IF at \o <<path[i]>> \in t
              THEN lookup(t, at \o <<path[i]>>, path, i + 1)
              ELSE [found |-> FALSE]

\* Path::exists
exists(t, path) == lookup(t, <<>>, path, 1).found

Below(node, dir) ==
    /\ Len(node) > Len(dir)
    /\ SubSeq(node, 1, Len(dir)) = dir

\* std::fs::remove_file: [ok, gone] with the nodes it removed
remove_file(t, path) ==
    LET n == lookup(t, <<>>, path, 1)
    IN IF n.found /\ ~IsDir(n.at) THEN [ok |-> TRUE, gone |-> {n.at}]
       ELSE [ok |-> FALSE, gone |-> {}]

\* std::fs::remove_dir_all: the content goes first and the directory last,
\* by the path it was given. The last step fails for the root and for a
\* path of ParentDir components only; a path that ends in ParentDir after a
\* named component no longer resolves once the content is gone, which is
\* not reported as an error, and the directory itself stays.
remove_dir_all(t, path) ==
    LET n == lookup(t, <<>>, path, 1)
        content == {m \in t : Below(m, n.at)}
    IN IF ~n.found \/ ~IsDir(n.at) THEN [ok |-> FALSE, gone |-> {}]
       ELSE IF n.at = <<>> \/ path[Len(path)] = ParentDir
            THEN [ok |-> ~lookup(t \ content, <<>>, path, 1).found,
                  gone |-> content]
            ELSE [ok |-> TRUE, gone |-> content \cup {n.at}]

\* std::env::current_dir() is Ok: the working directory of the process has
\* not been removed
current_dir(t, cwd) == cwd = <<>> \/ cwd \in t

\* clean or clean_only is called for a task of the taskfile in /d, from any
\* directory
CleanInit ==
    /\ SchedIdle
    /\ RunIdle
    /\ WsIdle
    /\ ArgsIdle
    /\ TrigIdle
    /\ ShellIdle
    /\ AfterIdle
    /\ \E files \in SUBSET FileNodes : tree = (Dirs \ {<<>>}) \cup files
    /\ cl_workdir \in Workdirs
    /\ cl_cwd \in Dirs
    /\ cl_steps \in BOOLEAN
    /\ cl_pc = "steps"
    /\ cl_last = "none"
    /\ cl_removed = {}
    /\ cl_ret = "none"

\* `if let Some(clean_steps)`: the clean steps are executed by a
\* NaiveExecutor. They are shell commands and leave the tree as `left`,
\* here the tree with at most one file created or deleted. `kind` is how
\* execute ends: "Ok", "Other" when the child of a step cannot be spawned
\* (the Err that map_err wraps), "Panic" when a child exits with a failure
\* status (exec_shell panics).
CleanSteps(kind, left) ==
    /\ cl_pc = "steps"
    /\ kind \in {"Ok", "Other", "Panic"}
    /\ IF cl_steps
       THEN \/ left = tree
            \/ \E f \in FileNodes :
                  \/ left = tree \ {f}
                  \/ /\ SubSeq(f, 1, Len(f) - 1) \in tree \cup {<<>>}
                     /\ left = tree \cup {f}
       ELSE kind = "Ok" /\ left = tree
    /\ tree' = left
    /\ cl_pc' = IF kind = "Ok" THEN "outputs" ELSE "done"
    /\ cl_ret' = IF kind = "Ok" THEN cl_ret ELSE kind
    /\ UNCHANGED <<cl_workdir, cl_cwd, cl_steps, cl_last, cl_removed>>
    /\ UNCHANGED notClean

\* one pass of `for o in task.resolve_outputs()`, `out` being the next
\* declared output: current_dir().expect(..) for the path to print, then
\* strip_prefix(&tasks.dir).expect(..), then the removal
CleanOutput(out) ==
    /\ cl_pc = "outputs"
    /\ LET o == resolve(out, cl_workdir)
           r == IF o.tag = "File" THEN remove_file(tree, o.path)
                ELSE remove_dir_all(tree, o.path)
       IN IF ~current_dir(tree, cl_cwd) \/ ~strip_prefix(o.path, TaskfileDir)
          THEN /\ cl_pc' = "done"
               /\ cl_ret' = "Panic"
               /\ UNCHANGED <<tree, cl_last, cl_removed>>
          ELSE IF exists(tree, o.path)
               THEN /\ tree' = tree \ r.gone
                    /\ cl_removed' = cl_removed \cup r.gone
                    /\ cl_pc' = IF r.ok THEN "outputs" ELSE "done"
                    /\ cl_ret' = IF r.ok THEN cl_ret ELSE "RemoveFileError"
                    /\ cl_last' = IF r.ok THEN "REMOVED" ELSE cl_last
               ELSE /\ cl_last' = "NOT FOUND"
                    /\ UNCHANGED <<tree, cl_removed, cl_pc, cl_ret>>
    /\ UNCHANGED <<cl_workdir, cl_cwd, cl_steps>>
    /\ UNCHANGED notClean

\* the outputs are exhausted: Ok(())
CleanReturn ==
    /\ cl_pc = "outputs"
    /\ cl_pc' = "done"
    /\ cl_ret' = "Ok"
    /\ UNCHANGED <<tree, cl_workdir, cl_cwd, cl_steps, cl_last, cl_removed>>
    /\ UNCHANGED notClean

\* recursive clean: clean_single_task for the next invocation of `sorted`;
\* its current_dir().expect(..) comes before clean_instantiated_task
CleanNextTask(workdir, steps) ==
    /\ cl_pc = "done"
    /\ cl_ret = "Ok"
    /\ cl_workdir' = workdir
    /\ cl_steps' = steps
    /\ cl_pc' = IF current_dir(tree, cl_cwd) THEN "steps" ELSE "done"
    /\ cl_last' = "none"
    /\ cl_ret' = IF current_dir(tree, cl_cwd) THEN "none" ELSE "Panic"
    /\ UNCHANGED <<tree, cl_cwd, cl_removed>>
    /\ UNCHANGED notClean

\* ================================================================
\* Shell steps: NaiveExecutor::exec_shell
\* ================================================================
Pipes == {"stdout", "stderr"}

\* the n-th line the child writes to pipe p
Line(p, n) == [pipe |-> p, n |-> n]

NoLine == [pipe |-> "none", n |-> 0]

\* the child is spawned, the channel is created and both reader threads
\* are started
ShellInit ==
    /\ SchedIdle
    /\ RunIdle
    /\ WsIdle
    /\ ArgsIdle
    /\ TrigIdle
    /\ CleanIdle
    /\ AfterIdle
    /\ child = "none"
    /\ wrote = [p \in Pipes |-> 0]
    /\ pipe = [p \in Pipes |-> <<>>]
    /\ reader = [p \in Pipes |-> "done"]
    /\ held = [p \in Pipes |-> NoLine]
    /\ chan = <<>>
    /\ rx = FALSE
    /\ sh_pc = "execute"
    /\ sink = <<>>
    /\ sh_ret = "none"
    /\ exec_steps \in 0..MaxSteps
    /\ exec_i = 0
    /\ exec_ret = "none"

\* `for command in commands`: exec_shell is called for the next command.
\* `outcome` is how it starts: "Spawned", the child runs with a fresh channel
\* and two reader threads; "Err", the child cannot be spawned; "Panic", the
\* command has a shebang that names no interpreter or cannot be split, or the
\* temporary file of its script cannot be written. After the last command
\* execute returns Ok
ExecuteNext(outcome) ==
    /\ sh_pc = "execute" \/ (sh_pc = "done" /\ sh_ret = "Ok")
    /\ exec_ret = "none"
    /\ IF exec_i = exec_steps
       THEN /\ exec_ret' = "Ok"
            /\ sh_pc' = "returned"
            /\ UNCHANGED <<child, wrote, pipe, reader, held, chan, rx, sink,
                           sh_ret, exec_i>>
       ELSE /\ exec_i' = exec_i + 1
            /\ outcome \in {"Spawned", "Err", "Panic"}
            /\ IF outcome = "Spawned"
               THEN /\ child' = "running"
                    /\ wrote' = [p \in Pipes |-> 0]
                    /\ pipe' = [p \in Pipes |-> <<>>]
                    /\ reader' = [p \in Pipes |-> "lines"]
                    /\ held' = [p \in Pipes |-> NoLine]
                    /\ chan' = <<>>
                    /\ rx' = TRUE
                    /\ sh_pc' = "recv"
                    /\ sink' = <<>>
                    /\ sh_ret' = "none"
                    /\ UNCHANGED exec_ret
               ELSE /\ exec_ret' = outcome
                    /\ sh_pc' = "returned"
                    /\ sh_ret' = outcome
                    /\ UNCHANGED <<child, wrote, pipe, reader, held, chan, rx,
                                   sink>>
    /\ UNCHANGED exec_steps
    /\ UNCHANGED notShell

\* the child writes its next line to pipe p
ChildWrite(p) ==
    /\ child = "running"
    /\ wrote[p] < MaxLines
    /\ wrote' = [wrote EXCEPT ![p] = @ + 1]
    /\ pipe' = [pipe EXCEPT ![p] = Append(@, Line(p, wrote[p] + 1))]
    /\ UNCHANGED <<child, reader, held, chan, rx, sh_pc, sink, sh_ret>>
    /\ UNCHANGED stepVars
    /\ UNCHANGED notShell

\* the child exits, which closes its ends of both pipes
ChildExit(status) ==
    /\ child = "running"
    /\ child' = status
    /\ UNCHANGED <<wrote, pipe, reader, held, chan, rx, sh_pc, sink, sh_ret>>
    /\ UNCHANGED stepVars
    /\ UNCHANGED notShell

\* `for line in reader.lines()`: the thread of pipe p gets its next line,
\* or the end of the pipe, where it ends and drops its sender. A line that
\* is not UTF-8 comes as Err and `if let Ok(line) = line` passes over it
ReaderNext(p, utf8) ==
    /\ reader[p] = "lines"
    /\ IF pipe[p] # <<>>
       THEN /\ pipe' = [pipe EXCEPT ![p] = Tail(@)]
            /\ IF utf8
               THEN /\ held' = [held EXCEPT ![p] = Head(pipe[p])]
                    /\ reader' = [reader EXCEPT ![p] = "send"]
               ELSE UNCHANGED <<held, reader>>
       ELSE /\ child # "running"
            /\ utf8
            /\ reader' = [reader EXCEPT ![p] = "done"]
            /\ UNCHANGED <<held, pipe>>
    /\ UNCHANGED <<child, wrote, chan, rx, sh_pc, sink, sh_ret>>
    /\ UNCHANGED stepVars
    /\ UNCHANGED notShell

\* `tx.send(line).expect(..)`: fails once the receiver is dropped
ReaderSend(p) ==
    /\ reader[p] = "send"
    /\ IF rx
       THEN /\ chan' = Append(chan, held[p])
            /\ reader' = [reader EXCEPT ![p] = "lines"]
       ELSE /\ reader' = [reader EXCEPT ![p] = "panic"]
            /\ UNCHANGED chan
    /\ held' = [held EXCEPT ![p] = NoLine]
    /\ UNCHANGED <<child, wrote, pipe, rx, sh_pc, sink, sh_ret>>
    /\ UNCHANGED stepVars
    /\ UNCHANGED notShell

SendersDropped == \A p \in Pipes : reader[p] \in {"done", "panic"}

\* `if let Ok(line) = rx.recv() { output_handler(&line) }`: recv blocks
\* while the channel is empty and a sender is alive
ConsumerRecv ==
    /\ sh_pc = "recv"
    /\ IF chan # <<>>
       THEN /\ sink' = Append(sink, Head(chan))
            /\ chan' = Tail(chan)
       ELSE /\ SendersDropped
            /\ UNCHANGED <<sink, chan>>
    /\ sh_pc' = "try_wait"
    /\ UNCHANGED <<child, wrote, pipe, reader, held, rx, sh_ret>>
    /\ UNCHANGED stepVars
    /\ UNCHANGED notShell

\* `if !status.success() { panic!(..) }`
OnExitFailure == "Panic"

\* `if let Some(status) = child.try_wait()`
ChildHasExited == child # "running"

\* `child.try_wait()`: on Some(status) exec_shell returns (or panics), and
\* the receiver is dropped with what is left in the channel
ConsumerTryWait ==
    /\ sh_pc = "try_wait"
    /\ IF ChildHasExited
       THEN /\ sh_pc' = "done"
            /\ sh_ret' = IF child = "success" THEN "Ok" ELSE OnExitFailure
            /\ exec_ret' = IF child = "success" THEN exec_ret
                           ELSE OnExitFailure
            /\ rx' = FALSE
            /\ chan' = <<>>
       ELSE /\ sh_pc' = "recv"
            /\ UNCHANGED <<sh_ret, exec_ret, rx, chan>>
    /\ UNCHANGED <<exec_steps, exec_i>>
    /\ UNCHANGED <<child, wrote, pipe, reader, held, sink>>
    /\ UNCHANGED notShell

\* between two runs somebody writes or removes a file
TrigTouch(path, to) ==
    /\ trg_pc = "done"
    /\ fs[path] # to
    /\ fs' = [fs EXCEPT ![path] = to]
    /\ UNCHANGED <<trg_task, not_changed, trg_pc, should_ret, output_hashes,
                   rewritten, regenerated, task_ret>>
    /\ UNCHANGED notTrig

\* the tasks of the jobs of one run: one declared output, any sources
JobTasks ==
    {[outputs |-> <<o>>, sources |-> Ascending(src), phony |-> ph,
      steps |-> TRUE] : o \in FsPaths, src \in SUBSET FsPaths, ph \in BOOLEAN}

\* a run starts on the first of its jobs
JobsInit ==
    /\ TrigInit
    /\ trg_task \in JobTasks

\* three paths: enough for a task with an output and two sources, or with
\* two outputs and a source
WidePaths == {1, 2, 3}

\* the tasks of the jobs of a run over these paths: at most one declared
\* output, any of the other paths as sources
WideTasks ==
    UNION {{[outputs |-> o, sources |-> Ascending(src), phony |-> ph,
             steps |-> TRUE] :
               src \in SUBSET (WidePaths \ Range(o)), ph \in BOOLEAN} :
           o \in {<<>>} \cup {<<q>> : q \in WidePaths}}

\* a run over the three paths starts on the first of its jobs
RegenInit ==
    /\ TrigStart(WidePaths)
    /\ trg_task \in WideTasks

\* one job over the three paths, of a task with two declared outputs
OutputsInit ==
    /\ TrigStart(WidePaths)
    /\ Len(trg_task.outputs) = 2

\* the job returned Ok: the loop of run goes on to the next job with the same
\* trigger_checker and a context of its own
TrigNextJob(task) ==
    /\ trg_pc = "done"
    /\ task_ret = "Ok"
    /\ trg_task' = task
    /\ trg_pc' = "should_run"
    /\ should_ret' = NotReturned
    /\ output_hashes' = {}
    /\ rewritten' = {}
    /\ task_ret' = "none"
    /\ UNCHANGED <<fs, not_changed, regenerated>>
    /\ UNCHANGED notTrig

vars == <<schedVars, runVars, wsVars, restVars>>

Init == SchedInit /\ RunIdle /\ WsIdle /\ RestIdle

Next ==
    \/ PumpStep
    \/ JobStep
    \/ Cancel

Spec == Init /\ [][Next]_vars

RunNext ==
    \/ RunBuild
    \/ RunSort
    \/ RunEnter
    \/ RunTaskOk
    \/ \E panics \in BOOLEAN : RunTaskErr(panics)
    \/ RunReturn

\* the sequential run of one requested task
RunSpec == RunInit /\ [][RunNext]_vars

SortNext == RunSort

\* topological_sort applied to a graph
SortSpec == SortInit /\ [][SortNext]_vars

WsNext == \E p \in Paths : WsLoad(p)

\* a workspace and the calls of load_taskfile on it
WsSpec == WsInit /\ [][WsNext]_vars

ResolveNext ==
    \/ \E p \in ImportPaths : WsLoad(p)
    \/ \E k \in Files \X {1}, r \in TaskRefs : WsResolveTask(k, r)
    \/ \E c \in Files \X {1}, n \in Names, r \in TaskRefs :
          WsResolveDep(c, n, r)

TrigNext ==
    \/ TrigShouldRun
    \/ \E after \in [DOMAIN fs -> FileStates] :
          \E dirty \in SUBSET {q \in output_hashes : after[q].exists} :
             TrigExecuteOk(after, dirty)
    \/ \E after \in [DOMAIN fs -> FileStates], panics \in BOOLEAN :
          TrigExecuteErr(after, panics)
    \/ TrigUpToDate
    \/ TrigCheckOutputs
    \/ \E fresh \in BOOLEAN : TrigAgain(fresh)
    \/ \E path \in DOMAIN fs, to \in FileStates : TrigTouch(path, to)

\* jobs of a run going through maybe_run_single_task
TrigSpec == TrigInit /\ [][TrigNext]_vars

\* the same over three paths
OutputsSpec == OutputsInit /\ [][TrigNext]_vars

\* ---- the sequential run followed job by job
\* the bodies of the tasks of such a run: path 1 is the output
SeqTasks ==
    {[outputs |-> <<1>>, sources |-> <<>>, phony |-> ph, steps |-> TRUE] :
        ph \in BOOLEAN}

\* the files after steps that write the paths in `written` and do nothing
\* else
WrittenNow(written) ==
    [q \in DOMAIN fs |-> IF q \in written THEN FileAt(MaxTime) ELSE fs[q]]

\* run is called for task 1 of a taskfile with at most MaxSeqDeps deps; the
\* tasks have one output and no sources, so that the times of the files do
\* not matter: the steps of such a run only write files, at the latest time
SeqInit ==
    /\ SchedIdle /\ WsIdle /\ ArgsIdle /\ CleanIdle /\ ShellIdle /\ AfterIdle
    /\ \E v \in Shapes(NumRunTasks, MaxSeqDeps) :
          \E e \in [1..Total(v, NumRunTasks) -> RunTasks] :
             /\ \A i \in 1..NumRunTasks : NoDup(Split(e, v)[i])
             /\ task_deps = Split(e, v)
    /\ req = 1
    /\ rpc = "build"
    /\ graph = EmptyGraph
    /\ sorted = <<>>
    /\ cycle = <<>>
    /\ run_i = 1
    /\ current = 0
    /\ entered = <<>>
    /\ completed = {}
    /\ run_result = "none"
    /\ \E x \in {Missing, FileAt(MaxTime)} :
          fs = [q \in FsPaths |-> IF q = 1 THEN x ELSE Missing]
    /\ trg_task = <<>>
    /\ not_changed = <<>>
    /\ trg_pc = "off"
    /\ should_ret = NotReturned
    /\ output_hashes = {}
    /\ rewritten = {}
    /\ regenerated = {}
    /\ task_ret = "none"

\* execution.enter_task(invocation), then maybe_run_single_task is called
\* for the task of the invocation
SeqEnter(body) ==
    /\ rpc = "loop"
    /\ current = 0
    /\ run_i <= Len(sorted)
    /\ current' = RunOrder(sorted)[run_i]
    /\ entered' = Append(entered, RunOrder(sorted)[run_i])
    /\ trg_task' = body
    /\ trg_pc' = "should_run"
    /\ task_ret' = "none"
    /\ UNCHANGED <<task_deps, req, rpc, graph, sorted, cycle, run_i,
                   completed, run_result>>
    /\ UNCHANGED <<fs, not_changed, should_ret, output_hashes, rewritten,
                   regenerated>>
    /\ UNCHANGED <<schedVars, wsVars, argVars, cleanVars, shellVars,
                   afterVars>>

\* maybe_run_single_task(..) returned Ok: the loop goes on
SeqTaskOk ==
    /\ rpc = "loop"
    /\ current # 0
    /\ trg_pc = "done"
    /\ task_ret = "Ok"
    /\ completed' = completed \cup {current}
    /\ current' = 0
    /\ run_i' = run_i + 1
    /\ trg_pc' = "off"
    /\ UNCHANGED <<task_deps, req, rpc, graph, sorted, cycle, entered,
                   run_result>>
    /\ UNCHANGED <<fs, trg_task, not_changed, should_ret, output_hashes,
                   rewritten, regenerated, task_ret>>
    /\ UNCHANGED <<schedVars, wsVars, argVars, cleanVars, shellVars,
                   afterVars>>

\* maybe_run_single_task(..)? returned Err, or panicked: run ends
SeqTaskErr ==
    /\ rpc = "loop"
    /\ current # 0
    /\ trg_pc = "done"
    /\ task_ret # "Ok"
    /\ current' = 0
    /\ run_result' = IF task_ret = "Panic" THEN "Panic" ELSE "ExecutionError"
    /\ rpc' = "done"
    /\ trg_pc' = "off"
    /\ UNCHANGED <<task_deps, req, graph, sorted, cycle, run_i, entered,
                   completed>>
    /\ UNCHANGED <<fs, trg_task, not_changed, should_ret, output_hashes,
                   rewritten, regenerated, task_ret>>
    /\ UNCHANGED <<schedVars, wsVars, argVars, cleanVars, shellVars,
                   afterVars>>

SeqNext ==
    \/ RunBuild
    \/ RunSort
    \/ \E body \in SeqTasks : SeqEnter(body)
    \/ TrigShouldRun
    \/ \E written \in SUBSET FsPaths :
          \E dirty \in SUBSET (written \cap output_hashes) :
             TrigExecuteOk(WrittenNow(written), dirty)
    \/ \E written \in SUBSET FsPaths, panics \in BOOLEAN :
          TrigExecuteErr(WrittenNow(written), panics)
    \/ TrigUpToDate
    \/ TrigCheckOutputs
    \/ SeqTaskOk
    \/ SeqTaskErr
    \/ RunReturn
    \/ Cancel

\* run with every job followed through maybe_run_single_task
SeqSpec == SeqInit /\ [][SeqNext]_vars

\* ---- run on a taskfile whose deps carry `after` lists
\* the `after` declarations of a taskfile f: for each task a set of pairs
\* <<a, b>> of positions in its deps, dep a naming the id of its sibling b;
\* at most one dep carries such a list, and the two deps so ordered have no
\* deps of their own
AfterDecls(f) ==
    {[t \in DOMAIN f |-> {}]} \cup
    {[t \in DOMAIN f |-> IF t = x[1] THEN {<<x[2], x[3]>>} ELSE {}] :
        x \in {y \in (DOMAIN f) \X (1..MaxDeps) \X (1..MaxDeps) :
                 /\ y[2] \in 1..Len(f[y[1]])
                 /\ y[3] \in 1..Len(f[y[1]])
                 /\ f[y[1]][y[2]] # f[y[1]][y[3]]
                 /\ f[f[y[1]][y[2]]] = <<>>
                 /\ f[f[y[1]][y[3]]] = <<>>}}

\* run is called for task 1 of a taskfile parsed by parse_deps
AfterInit ==
    /\ ArgsIdle /\ TrigIdle /\ CleanIdle /\ ShellIdle
    /\ SchedIdle
    /\ WsIdle
    /\ IsTaskfile(task_deps, NumRunTasks)
    /\ dep_after \in AfterDecls(task_deps)
    /\ req = 1
    /\ rpc = "build"
    /\ graph = EmptyGraph
    /\ sorted = <<>>
    /\ cycle = <<>>
    /\ run_i = 1
    /\ current = 0
    /\ entered = <<>>
    /\ completed = {}
    /\ run_result = "none"

\* the sequential run of a taskfile with `after` lists
AfterSpec == AfterInit /\ [][RunNext]_vars

\* ---- the recursive clean followed task by task
\* mutant: the sorted list is walked back to front
CleanOrderReversed(list) == Reverse(list)

\* for invocation in sorted.iter()
CleanOrder(list) == list

\* the declared outputs of the tasks of such a clean, relative to /d
CleanAllOutputs ==
    {[tag |-> "File", abs |-> FALSE, comps |-> <<"f">>],
     [tag |-> "Directory", abs |-> FALSE, comps |-> <<"s">>]}

\* clean is called for task 1 of a taskfile in /d with at most MaxSeqDeps
\* deps, every file being there
CleanAllInit ==
    /\ SchedIdle /\ WsIdle /\ ArgsIdle /\ TrigIdle /\ ShellIdle /\ AfterIdle
    /\ \E v \in Shapes(NumRunTasks, MaxSeqDeps) :
          \E e \in [1..Total(v, NumRunTasks) -> RunTasks] :
             /\ \A i \in 1..NumRunTasks : NoDup(Split(e, v)[i])
             /\ task_deps = Split(e, v)
    /\ req = 1
    /\ rpc = "build"
    /\ graph = EmptyGraph
    /\ sorted = <<>>
    /\ cycle = <<>>
    /\ run_i = 1
    /\ current = 0
    /\ entered = <<>>
    /\ completed = {}
    /\ run_result = "none"
    /\ tree = (Dirs \ {<<>>}) \cup FileNodes
    /\ cl_workdir = TaskfileDir
    /\ cl_cwd \in {TaskfileDir, <<"d", "s">>}
    /\ cl_steps = FALSE
    /\ cl_pc = "off"
    /\ cl_last = "none"
    /\ cl_removed = {}
    /\ cl_ret = "none"

\* clean_single_task(current, &instantiations, invocation, ..) is called
\* for the next invocation of the loop: it looks the task up and panics at
\* current_dir().expect(..) when the working directory is gone, before
\* clean_instantiated_task is called
CleanEnter(steps) ==
    /\ rpc = "loop"
    /\ current = 0
    /\ run_i <= Len(sorted)
    /\ current' = CleanOrder(sorted)[run_i]
    /\ entered' = Append(entered, CleanOrder(sorted)[run_i])
    /\ cl_steps' = steps
    /\ cl_pc' = IF current_dir(tree, cl_cwd) THEN "steps" ELSE "done"
    /\ cl_last' = "none"
    /\ cl_ret' = IF current_dir(tree, cl_cwd) THEN "none" ELSE "Panic"
    /\ UNCHANGED <<task_deps, req, rpc, graph, sorted, cycle, run_i,
                   completed, run_result>>
    /\ UNCHANGED <<tree, cl_workdir, cl_cwd, cl_removed>>
    /\ UNCHANGED <<schedVars, wsVars, argVars, trgVars, shellVars,
                   afterVars>>

\* clean_single_task(..) returned Ok: the loop goes on
CleanTaskOk ==
    /\ rpc = "loop"
    /\ current # 0
    /\ cl_pc = "done"
    /\ cl_ret = "Ok"
    /\ completed' = completed \cup {current}
    /\ current' = 0
    /\ run_i' = run_i + 1
    /\ cl_pc' = "off"
    /\ UNCHANGED <<task_deps, req, rpc, graph, sorted, cycle, entered,
                   run_result>>
    /\ UNCHANGED <<tree, cl_workdir, cl_cwd, cl_steps, cl_last, cl_removed,
                   cl_ret>>
    /\ UNCHANGED <<schedVars, wsVars, argVars, trgVars, shellVars,
                   afterVars>>

\* clean_single_task(..)? returned Err, or panicked: clean ends
CleanTaskErr ==
    /\ rpc = "loop"
    /\ current # 0
    /\ cl_pc = "done"
    /\ cl_ret # "Ok"
    /\ current' = 0
    /\ run_result' = IF cl_ret = "Panic" THEN "Panic" ELSE "ExecutionError"
    /\ rpc' = "done"
    /\ cl_pc' = "off"
    /\ UNCHANGED <<task_deps, req, graph, sorted, cycle, run_i, entered,
                   completed>>
    /\ UNCHANGED <<tree, cl_workdir, cl_cwd, cl_steps, cl_last, cl_removed,
                   cl_ret>>
    /\ UNCHANGED <<schedVars, wsVars, argVars, trgVars, shellVars,
                   afterVars>>

CleanAllNext ==
    \/ RunBuild
    \/ RunSort
    \/ \E steps \in BOOLEAN : CleanEnter(steps)
    \/ \E kind \in {"Ok", "Other", "Panic"},
          left \in {tree, tree \ {<<"d", "f">>}, tree \cup {<<"d", "f">>}} :
          CleanSteps(kind, left)
    \/ \E out \in CleanAllOutputs : CleanOutput(out)
    \/ CleanReturn
    \/ CleanTaskOk
    \/ CleanTaskErr
    \/ RunReturn

\* clean with every task followed through clean_instantiated_task
CleanAllSpec == CleanAllInit /\ [][CleanAllNext]_vars

JobsNext ==
    \/ TrigShouldRun
    \/ \E after \in [DOMAIN fs -> FileStates] :
          \E dirty \in SUBSET {q \in output_hashes : after[q].exists} :
             TrigExecuteOk(after, dirty)
    \/ \E after \in [DOMAIN fs -> FileStates], panics \in BOOLEAN :
          TrigExecuteErr(after, panics)
    \/ TrigUpToDate
    \/ TrigCheckOutputs
    \/ \E task \in JobTasks : TrigNextJob(task)

\* the jobs of one run, one after another, over files nothing else writes
JobsSpec == JobsInit /\ [][JobsNext]_vars

RegenNext ==
    \/ TrigShouldRun
    \/ \E after \in [DOMAIN fs -> FileStates] :
          \E dirty \in SUBSET {q \in output_hashes : after[q].exists} :
             TrigExecuteOk(after, dirty)
    \/ \E after \in [DOMAIN fs -> FileStates], panics \in BOOLEAN :
          TrigExecuteErr(after, panics)
    \/ TrigUpToDate
    \/ TrigCheckOutputs
    \/ \E task \in WideTasks : TrigNextJob(task)

\* the jobs of one run over three paths, with tasks that may have two
\* sources or no output
RegenSpec == RegenInit /\ [][RegenNext]_vars

CleanNext ==
    \/ \E kind \in {"Ok", "Other", "Panic"},
          left \in SUBSET (Dirs \cup FileNodes) : CleanSteps(kind, left)
    \/ \E out \in OutputPaths : CleanOutput(out)
    \/ CleanReturn
    \/ \E workdir \in Workdirs, steps \in BOOLEAN :
          CleanNextTask(workdir, steps)

\* a clean of the tasks of one taskfile
CleanSpec == CleanInit /\ [][CleanNext]_vars

ShellNext ==
    \/ \E outcome \in {"Spawned", "Err", "Panic"} : ExecuteNext(outcome)
    \/ \E p \in Pipes : ChildWrite(p)
    \/ \E status \in {"success", "failure"} : ChildExit(status)
    \/ \E p \in Pipes, utf8 \in BOOLEAN : ReaderNext(p, utf8)
    \/ \E p \in Pipes : ReaderSend(p)
    \/ ConsumerRecv
    \/ ConsumerTryWait

\* execute: the shell steps of a task, their children and reader threads
ShellSpec == ShellInit /\ [][ShellNext]_vars

ArgsNext == CheckArgs

\* the argument check of one instantiation
ArgsSpec == ArgsInit /\ [][ArgsNext]_vars

\* a workspace, the loads on it and the lookups in it
ResolveSpec == ResolveInit /\ [][ResolveNext]_vars

\* the pump is polled whenever it can proceed and every spawned job returns
FairSpec ==
    /\ Spec
    /\ WF_vars(PumpStep)
    /\ \A t \in Tasks : WF_vars(JobFinish(t, "ok") \/ JobFinish(t, "err"))

\* ------------------------------------------- the queue used directly
\* a TaskTreeQueue filled by add and then driven by its caller, as in
\* tests::task_queue_poll and tests::invalid_mark_fulfilled: job[t] is
\* "running" for a task handed out by take_next_ready_task and "ok" once
\* mark_fulfilled(t) has been called
ApiInit ==
    /\ SchedInit
    /\ max_concurrency = 1
    /\ RunIdle /\ WsIdle /\ RestIdle

\* tq.take_next_ready_task()
ApiTake ==
    /\ pc = "feed"
    /\ result = "none"
    /\ LET r == take_next_ready_task(queue)
       IN IF r.poll = "ReadySome"
          THEN /\ queue' = r.queue
               /\ job' = [job EXCEPT ![r.task] = "running"]
               /\ started' = Append(started, r.task)
          ELSE UNCHANGED <<queue, job, started>>
    /\ UNCHANGED <<max_concurrency, input_queue, deps_graph, cancel, pc,
                   build_i, parents, interrupted, failures, result, notified,
                   aborted>>
    /\ UNCHANGED notSched

\* tq.mark_fulfilled(&task), called once for a task
ApiMark(task) ==
    /\ pc = "feed"
    /\ result = "none"
    /\ job[task] # "ok"
    /\ LET tq == mark_fulfilled([queue |-> queue, parents |-> parents], task)
       IN /\ queue' = tq.queue
          /\ parents' = tq.parents
          /\ result' = IF tq.panic THEN "Panic" ELSE result
    /\ job' = [job EXCEPT ![task] = "ok"]
    /\ UNCHANGED <<max_concurrency, input_queue, deps_graph, cancel, pc,
                   build_i, interrupted, failures, notified, aborted, started>>
    /\ UNCHANGED notSched

\* tq.add(task, deps) after the queue was built, for a task that was not
\* taken yet: a new task, or one that is still queued
ApiAdd(task, debug) ==
    /\ pc = "feed"
    /\ result = "none"
    /\ job[task] = "idle"
    /\ LET tq == add_set([queue |-> queue, parents |-> parents], task,
                         deps_graph[task], debug)
       IN /\ queue' = tq.queue
          /\ parents' = tq.parents
          /\ result' = IF tq.panic THEN "Panic" ELSE result
    /\ UNCHANGED <<max_concurrency, input_queue, deps_graph, cancel, pc,
                   build_i, interrupted, failures, job, notified, aborted,
                   started>>
    /\ UNCHANGED notSched

ApiNext ==
    \/ BuildQueue
    \/ ApiTake
    \/ \E task \in Tasks : ApiMark(task)

ApiSpec == ApiInit /\ [][ApiNext]_vars

QueueNext ==
    \/ ApiNext
    \/ \E task \in Tasks, debug \in BOOLEAN : ApiAdd(task, debug)

\* add, take_next_ready_task and mark_fulfilled in any order
QueueSpec == ApiInit /\ [][QueueNext]_vars

\* ------------------------------------------------- graph vocabulary
RECURSIVE ReachFrom(_, _, _)
ReachFrom(g, frontier, seen) ==
    LET new == UNION {g[x] : x \in frontier} \ seen
    IN IF new = {} THEN seen ELSE ReachFrom(g, new, seen \cup new)

\* direct and transitive deps of t in g
Descendants(g, t) == ReachFrom(g, {t}, {})

IsDag(g) == \A t \in DOMAIN g : t \notin Descendants(g, t)

Queued == Range(input_queue)

DepsQueued == \A t \in Queued : deps_graph[t] \subseteq Queued

AnyJobErr == \E t \in Tasks : job[t] = "err"

StartedOnce(t) == Cardinality({i \in 1..Len(started) : started[i] = t}) = 1

\* ------------------------------------------------------------ claims

\* C1: a job is started only when every dep listed for its task in deps_graph
\* has completed successfully, for every max_concurrency and interleaving.
C1_DepsCompleteBeforeStart ==
    \A i \in 1..Len(started) :
        \A d \in deps_graph[started[i]] : job[d] = "ok"

\* C1 witness: with two slots free, a task that has deps has been started.
C1_Witness ==
    /\ max_concurrency = 2
    /\ \E i \in 1..Len(started) : deps_graph[started[i]] # {}

\* C2: the jobs started and not yet finished never exceed max_concurrency.
C2_BoundedConcurrency == Cardinality(Running) <= max_concurrency

\* C2 witness: max_concurrency = 1, one job runs while another task is ready.
C2_Witness ==
    /\ max_concurrency = 1
    /\ Cardinality(Running) = 1
    /\ pc = "join"
    /\ ReadyIndices(queue) # {}

\* C3: for a DAG whose deps are all queued and max_concurrency >= 1, Pending
\* is returned only while the JoinSet is non-empty, the pump never waits on
\* an empty JoinSet and never fails with "queue is waiting".
C3_PendingOnlyWhileRunning ==
    (IsDag(deps_graph) /\ DepsQueued /\ max_concurrency >= 1) =>
        /\ result # "Waiting"
        /\ pc = "join" => JoinSetLen > 0
        /\ (pc = "feed" /\ HasCapacity /\ RunWhile
              /\ take_next_ready_task(queue).poll = "Pending") => JoinSetLen > 0

\* C3 witness: in such a run take_next_ready_task returns Pending to the pump.
C3_Witness ==
    /\ IsDag(deps_graph) /\ DepsQueued /\ max_concurrency >= 1
    /\ pc = "feed" /\ HasCapacity /\ RunWhile
    /\ take_next_ready_task(queue).poll = "Pending"

\* C4 as stated: for a DAG, max_concurrency >= 1, no cancellation and no
\* failing job, the pump returns Ok with every queued task started once.
C4_Original ==
    (IsDag(deps_graph) /\ max_concurrency >= 1 /\ ~cancel /\ ~AnyJobErr
       /\ pc = "done") =>
        (result = "Ok" /\ \A t \in Queued : StartedOnce(t))

C4_ReturnedOk ==
    /\ pc = "done"
    /\ result = "Ok"
    /\ Len(started) = Len(input_queue)
    /\ \A t \in Queued : StartedOnce(t)

\* C4 amended: for a DAG whose deps are all queued and max_concurrency >= 1,
\* unless the run is cancelled or a job fails the pump eventually returns Ok
\* and by then every queued task has been started exactly once.
C4_EventuallyOk ==
    (IsDag(deps_graph) /\ DepsQueued /\ max_concurrency >= 1) =>
        <>(cancel \/ AnyJobErr \/ C4_ReturnedOk)

\* C4 witness: a run of all tasks with a dependency has returned Ok.
C4_Witness ==
    /\ C4_ReturnedOk
    /\ Len(input_queue) = NumTasks
    /\ \E t \in Tasks : deps_graph[t] # {}

\* C5: once a job has returned Err, the pump returns Err carrying the first
\* error it joined, and no spawned job is running when it returns.
C5_FailureReturned ==
    (pc = "done" /\ AnyJobErr) =>
        /\ result = "Failed"
        /\ failures # <<>>
        /\ job[failures[1]] = "err"
        /\ Running = {}

\* C6 as stated: an interrupted run returns the 'interrupted' error.
C6_Original == (pc = "done" /\ interrupted) => result = "Interrupted"

\* C6 amended: after run_while() has returned false no job is started; the
\* pump returns only when the JoinSet is empty, with the 'interrupted' error
\* when no running job failed and with the failure error otherwise.
C6_Interruption ==
    [][/\ interrupted => started' = started
       /\ (interrupted' /\ pc' = "done") =>
            /\ JoinSetLen' = 0
            /\ result' = IF failures' = <<>> THEN "Interrupted" ELSE "Failed"
      ]_vars

\* C6 witness: an interrupted run has returned with tasks left unstarted
\* after waiting for a job it had started.
C6_Witness ==
    /\ interrupted /\ pc = "done"
    /\ result = "Interrupted"
    /\ started # <<>>
    /\ queue # <<>>

\* C7 as stated: once a job has failed no further job is started.
C7_Original == [][AnyJobErr => started' = started]_vars

\* C7 amended: once the pump has joined a failed job no further job is
\* started, and no direct or transitive dependent of a failed task is ever
\* started.
C7_NoStartAfterFailure ==
    [][/\ failures # <<>> => started' = started
       /\ \A t \in Tasks : job'[t] \in {"err", "cancelled"} =>
            \A i \in 1..Len(started') :
                t \notin Descendants(deps_graph, started'[i])
      ]_vars

\* C7 witness: a failure was joined while a dependent of the failed task
\* was still queued.
C7_Witness ==
    /\ failures # <<>>
    /\ \E i \in 1..Len(queue) : failures[1] \in queue[i].deps

\* ------------------------------------------- sequential run and sort

\* the declared deps of every task, as sets
DeclaredDeps == [t \in RunTasks |-> IF t \in DOMAIN task_deps
                                    THEN Range(task_deps[t]) ELSE {}]

\* the successors of every node of `graph`, as sets
SuccSets == [t \in RunTasks |-> Range(GraphGet(graph, t))]

\* no cycle among the tasks reachable from the requested one
ReachableAcyclic ==
    \A t \in {req} \cup Descendants(DeclaredDeps, req) :
        t \notin Descendants(DeclaredDeps, t)

\* depth-first post-order from t, deps taken in declaration order
RECURSIVE PostOrder(_, _, _)
RECURSIVE PostOrderList(_, _, _)
PostOrder(deps, t, acc) ==
    IF t \in Range(acc) THEN acc
    ELSE Append(PostOrderList(deps, deps[t], acc), t)

PostOrderList(deps, l, acc) ==
    IF l = <<>> THEN acc
    ELSE PostOrderList(deps, Tail(l), PostOrder(deps, Head(l), acc))

IsPrefix(s, t) == Len(s) <= Len(t) /\ s = SubSeq(t, 1, Len(s))

Index(s, x) == CHOOSE i \in 1..Len(s) : s[i] = x

\* C8: a sequential run enters the tasks in the depth-first post-order from
\* the requested task that takes deps in declaration order; a task is entered
\* only when all its transitive deps have been entered before it and have
\* completed; a run that returns Ok has entered the whole post-order.
C8_SequentialPostOrder ==
    ReachableAcyclic =>
        /\ IsPrefix(entered, PostOrder(task_deps, req, <<>>))
        /\ \A i \in 1..Len(entered) :
              \A d \in Descendants(DeclaredDeps, entered[i]) :
                  /\ d \in completed
                  /\ \E j \in 1..(i - 1) : entered[j] = d
        /\ run_result = "Ok" => entered = PostOrder(task_deps, req, <<>>)

\* C9 as stated: in the returned list every node comes after its successors.
C9_Original ==
    rpc = "loop" =>
        \A u \in DOMAIN graph.succ : \A v \in Range(graph.succ[u]) :
            Index(sorted, u) > Index(sorted, v)

\* C9 amended: the list returned for an acyclic graph holds every node once
\* and, for every edge u -> v, u BEFORE v: it is root-first, and the
\* leaves-first order is its reverse.
C9_SortedRootFirst ==
    rpc = "loop" =>
        /\ Range(sorted) = Range(graph.keys) \cup UNION {SuccSets[t] : t \in RunTasks}
        /\ Len(sorted) = Cardinality(Range(sorted))
        /\ \A u \in DOMAIN graph.succ : \A v \in Range(graph.succ[u]) :
              Index(sorted, u) < Index(sorted, v)

\* C9 witness: a graph with a path of two edges has been sorted.
C9_Witness ==
    /\ rpc = "loop"
    /\ \E u \in DOMAIN graph.succ : \E v \in Range(graph.succ[u]) :
          v \in DOMAIN graph.succ /\ graph.succ[v] # <<>>

\* C10: topological_sort returns CycleDetected exactly when the graph has a
\* cycle (a self-edge included); the reconstruction of the path terminates,
\* the path starts and ends with the same node and each consecutive pair of
\* it is an edge of the graph.
C10_CycleReported ==
    rpc \in {"loop", "done"} =>
        /\ run_result # "Hang"
        /\ run_result = "CycleDetected" <=> ~IsDag(SuccSets)
        /\ run_result = "CycleDetected" =>
              /\ Len(cycle) >= 2
              /\ cycle[1] = cycle[Len(cycle)]
              /\ \A i \in 1..(Len(cycle) - 1) :
                    cycle[i + 1] \in Range(GraphGet(graph, cycle[i]))

\* C10 witness: a cycle of two nodes, which the search did not start on, has
\* been reported.
C10_Witness ==
    /\ run_result = "CycleDetected"
    /\ Len(cycle) = 3
    /\ cycle[1] # graph.keys[1]

\* C11: when the deps reachable from the requested task contain a cycle, the
\* graph is still built, no task is ever entered or completed, the loop over
\* the sorted list is never reached, and run returns CycleDetected with a
\* closed path of declared deps among the reachable tasks.
C11_CycleFailsBeforeEntering ==
    (rpc # "off" /\ ~ReachableAcyclic) =>
        /\ entered = <<>>
        /\ completed = {}
        /\ current = 0
        /\ rpc # "loop"
        /\ rpc = "done" =>
              /\ run_result = "CycleDetected"
              /\ Len(cycle) >= 2
              /\ cycle[1] = cycle[Len(cycle)]
              /\ \A i \in 1..(Len(cycle) - 1) :
                    cycle[i + 1] \in DeclaredDeps[cycle[i]]
              /\ Range(cycle) \subseteq {req} \cup Descendants(DeclaredDeps, req)

\* C11 witness: 1.deps = [2], 2.deps = [1]; running 1 has failed with a cycle
\* that holds both tasks, and nothing was entered.
C11_Witness ==
    /\ task_deps[1] = <<2>>
    /\ task_deps[2] = <<1>>
    /\ rpc = "done"
    /\ run_result = "CycleDetected"
    /\ Range(cycle) = {1, 2}
    /\ entered = <<>>

\* ------------------------------------------------------------ workspace

\* the entries of the workspace map that hold file f
EntriesOf(f) == {k \in DOMAIN ws : k[1] = f}

\* C12: whatever spelling of its path a taskfile is loaded through, a load
\* that succeeds returns the canonical path of the file as its id and that id
\* is a key of the workspace; a file has at most one entry, and a file that
\* has one was loaded by a front-end once; a load never changes an entry
\* already stored.
C12_IdempotentLoad ==
    /\ [](\A f \in Files :
            /\ Cardinality(EntriesOf(f)) <= 1
            /\ EntriesOf(f) # {} => ws_loads[f] = 1)
    /\ [](ws_call.ret.ok =>
            /\ ws_call.ret.id = <<ws_call.path[1], 1>>
            /\ ws_call.ret.id \in DOMAIN ws)
    /\ [][\A k \in DOMAIN ws : k \in DOMAIN ws' /\ ws'[k] = ws[k]]_vars

\* C12 witness: file 1, already loaded, has been loaded again through its
\* second spelling and the cached id was returned.
C12_Witness ==
    /\ ws_call.path = <<1, 2>>
    /\ ws_call.hit
    /\ ws_call.ret = LoadOk(<<1, 1>>)
    /\ ws_loads[1] = 1

\* C13: after a load returned Ok, every import of every stored taskfile is
\* Resolved(id) with id a key of the workspace.
C13_ImportClosure ==
    ws_call.ret.ok =>
        \A k \in DOMAIN ws : \A i \in DOMAIN ws[k].imports :
            /\ ws[k].imports[i].resolved
            /\ ws[k].imports[i].at \in DOMAIN ws

\* C14: resolve_task(T, r) on a loaded workspace returns None or a taskfile
\* with one of its tasks; None exactly when r names an alias absent from
\* T.imports or the target taskfile has no task of that name; Name(n) gives
\* (T, T.tasks[n]); Imported{from, n} gives the taskfile bound to
\* T.imports[from] with its own task n.
C14_ResolveTask ==
    ws_res.op = "resolve_task" =>
        LET T == ws[ws_res.cur]
            r == ws_res.ref
            out == ws_res.out
        IN  /\ out.kind \in {"None", "Some"}
            /\ r.kind = "Name" =>
                  /\ out.kind = "None" <=> r.name \notin DOMAIN T.tasks
                  /\ out.kind = "Some" =>
                        out.tasks = T /\ out.task = T.tasks[r.name]
            /\ (r.kind = "Imported" /\ r.from \notin DOMAIN T.imports) =>
                  out.kind = "None"
            /\ (r.kind = "Imported" /\ r.from \in DOMAIN T.imports) =>
                  /\ T.imports[r.from].resolved
                  /\ T.imports[r.from].at \in DOMAIN ws
                  /\ out.kind = "None" <=>
                        r.name \notin DOMAIN ws[T.imports[r.from].at].tasks
                  /\ out.kind = "Some" =>
                        /\ out.tasks = ws[T.imports[r.from].at]
                        /\ out.task.body = <<T.imports[r.from].at[1], r.name>>

\* C15: in graph construction a dep of a task defined in taskfile B is
\* resolved against B, whatever taskfile the run was started in: Name(n)
\* resolves to (id(B), n), Imported{from, n} to (B.imports[from], n) with the
\* task of that taskfile, and a dep that does not resolve is reported
\* against B.
C15_DepsResolvedInDefiningTaskfile ==
    ws_res.op = "resolve_dep" =>
        LET B == ws_res.invocation.taskfile
            r == ws_res.ref
            out == ws_res.out
        IN  /\ out.kind = "TaskfileInvocationResolutionError" =>
                  out.taskfile = B
            /\ (out.kind = "Some" /\ r.kind = "Name") =>
                  /\ out.resolved.ref = [taskfile |-> B, name |-> r.name]
                  /\ out.task = ws[B].tasks[r.name]
            /\ (out.kind = "Some" /\ r.kind = "Imported") =>
                  /\ r.from \in DOMAIN ws[B].imports
                  /\ ws[B].imports[r.from].resolved
                  /\ out.resolved.ref = [taskfile |-> ws[B].imports[r.from].at,
                                         name |-> r.name]
                  /\ out.task.body = <<ws[B].imports[r.from].at[1], r.name>>

\* C15 witness: the run was started in taskfile 1, which imports taskfile 2;
\* the dep Name(1) of a task of taskfile 2 resolved to task 1 of taskfile 2,
\* although taskfile 1 has a task 1 as well.
C15_Witness ==
    /\ ws_res.op = "resolve_dep"
    /\ ws_res.cur = <<1, 1>>
    /\ ws_res.invocation.taskfile = <<2, 1>>
    /\ ws_res.ref = Name(1)
    /\ ws_res.out.kind = "Some"
    /\ ws_res.out.resolved.ref = [taskfile |-> <<2, 1>>, name |-> 1]

\* C16: the argument check of an instantiation fails iff, once the declared
\* defaults stand in for the arguments that were not supplied, the keys of
\* the arguments differ from the keys of the params or some argument fails
\* the type predicate of its param; NotFound is returned for a key that is
\* not on both sides and TypeError for a value that fails its predicate.
C16_ArgumentCheck ==
    inst_ret # NotCalled =>
       LET p == inst_params
           declared == {j \in DOMAIN p : p[j].default.some}
           a == [k \in DOMAIN inst_args \cup declared |->
                    IF k \in DOMAIN inst_args THEN inst_args[k]
                    ELSE p[k].default.value]
       IN /\ ~inst_ret.ok <=>
                \/ DOMAIN a # DOMAIN p
                \/ \E k \in DOMAIN a \cap DOMAIN p : ~validate(p[k].ty, a[k])
          /\ (~inst_ret.ok /\ inst_ret.err = "NotFound") =>
                inst_ret.key \in (DOMAIN a \ DOMAIN p) \cup (DOMAIN p \ DOMAIN a)
          /\ (~inst_ret.ok /\ inst_ret.err = "TypeError") =>
                /\ inst_ret.key \in DOMAIN a \cap DOMAIN p
                /\ ~validate(p[inst_ret.key].ty, a[inst_ret.key])

\* should_run has just returned
ShouldRunReturns == trg_pc = "should_run" /\ trg_pc' # "should_run"

\* the outputs of the task all exist and none is older than a source
OutputsUpToDate ==
    /\ \A i \in 1..Len(trg_task.outputs) : fs[trg_task.outputs[i]].exists
    /\ \A j \in 1..Len(trg_task.sources) : fs[trg_task.sources[j]].exists
    /\ \A i \in 1..Len(trg_task.outputs) : \A j \in 1..Len(trg_task.sources) :
          fs[trg_task.outputs[i]].mtime >= fs[trg_task.sources[j]].mtime

Skipped == should_ret'.ok /\ ~should_ret'.run /\ trg_pc' = "up_to_date"

Executed == should_ret'.ok /\ should_ret'.run /\ trg_pc' = "execute"

\* C17 as stated: should_run returns false, and up_to_date() is what comes
\* next, for every non-phony task whose declared outputs all exist with a
\* modification time >= that of every declared source.
C17_Original ==
    [][(ShouldRunReturns /\ ~trg_task.phony /\ OutputsUpToDate)
          => Skipped]_vars

\* C17: should_run returns false, and up_to_date() is what comes next, for
\* every non-phony task that declares at least one output, whose outputs
\* all exist with a modification time >= that of every declared source.
C17_SkipLaw ==
    [][(ShouldRunReturns /\ ~trg_task.phony /\ Len(trg_task.outputs) > 0
          /\ OutputsUpToDate)
          => Skipped]_vars

\* a task with steps, a source and an output as new as the source was skipped
C17_Witness ==
    /\ trg_pc = "up_to_date"
    /\ ~trg_task.phony
    /\ trg_task.steps
    /\ trg_task.outputs = <<2>>
    /\ trg_task.sources = <<1>>
    /\ fs[1].exists /\ fs[2].exists
    /\ fs[2].mtime = fs[1].mtime
    /\ ~should_ret.run

\* C18 as stated: should_run returns true on every call for a task with no
\* declared outputs and for a phony task with steps, whatever the files.
C18_Original ==
    [][(ShouldRunReturns
          /\ (Len(trg_task.outputs) = 0 \/ (trg_task.phony /\ trg_task.steps)))
          => Executed]_vars

\* no declared source is missing, unless the checker has it as not changed
SourcesFound ==
    \A j \in 1..Len(trg_task.sources) :
       \/ fs[trg_task.sources[j]].exists
       \/ /\ trg_task.sources[j] \in DOMAIN not_changed
          /\ not_changed[trg_task.sources[j]]

\* C18: should_run returns true on every call, repeated calls on unchanged
\* files included, for a task with no declared outputs, and for a phony
\* task with steps none of whose sources is missing, whatever the state of
\* its outputs and however the timestamps compare.
C18_AlwaysRunLaw ==
    [][(ShouldRunReturns
          /\ \/ Len(trg_task.outputs) = 0
             \/ (trg_task.phony /\ trg_task.steps /\ SourcesFound))
          => Executed]_vars

\* a phony task whose output is newer than its source runs again in a run
\* whose checker has already seen the output unchanged
C18_Witness ==
    /\ trg_pc = "execute"
    /\ trg_task.phony
    /\ trg_task.steps
    /\ trg_task.outputs = <<2>>
    /\ trg_task.sources = <<1>>
    /\ fs[1].exists /\ fs[2].exists
    /\ fs[2].mtime > fs[1].mtime
    /\ 2 \in DOMAIN not_changed
    /\ not_changed[2]
    /\ should_ret.run

\* C19: clean removes only paths whose canonical form lies below the
\* directory of the taskfile; an output that leaves it through ParentDir
\* components or an absolute path is refused.
C19_CleanStaysInside ==
    \A node \in cl_removed : Below(node, TaskfileDir)

\* C20: when exec_shell returns, every line the child wrote to stdout or
\* stderr has been passed to the sink, the lines of each pipe in the order
\* they were written.
C20_AllLinesForwarded ==
    sh_pc = "done" =>
       \A p \in Pipes :
          SelectSeq(sink, LAMBDA l : l.pipe = p)
             = [n \in 1..wrote[p] |-> Line(p, n)]

\* C21: the steps of a task run one after another in declaration order, and
\* when the child of a step exits with a non-zero status no later step is
\* started and execute returns an error to its caller.
C21_StepFailureReturned ==
    /\ exec_i <= exec_steps
    /\ sh_pc \in {"recv", "try_wait"} => exec_ret = "none"
    /\ (sh_pc = "done" /\ child = "failure") => exec_ret = "Err"

\* C22: a max_concurrency of zero never drives a run: the parser of -j
\* rejects 0, so every accepted value gives at least one thread, and
\* execute_tasks_concurrently called with 0 starts no job and returns the
\* error of join_next on an empty set, whatever the queue.
C22_ZeroConcurrency ==
    /\ [](\A v \in ThreadValues :
            /\ (v.kind = "number" /\ v.n = 0) => ~parse_ref(v).ok
            /\ parse_ref(v).ok =>
                  \A cpus \in 1..(MaxConcurrency + 1) :
                     \A physical \in 1..cpus :
                        get_num_threads(parse_ref(v).config, cpus, physical) > 0)
    /\ [](max_concurrency = 0 =>
            /\ started = <<>>
            /\ \A t \in Tasks : job[t] = "idle"
            /\ result \in {"none", "Waiting"})
    /\ ((max_concurrency = 0 /\ pc # "off") ~> result = "Waiting")

\* a run with a non-empty queue and no thread has returned the error
C22_Witness ==
    /\ max_concurrency = 0
    /\ Len(input_queue) > 1
    /\ result = "Waiting"
    /\ pc = "done"

\* C23: a poll of the queue by the pump (a step from "feed" with room in the
\* pool and no cancellation) reports Ready(None), seen as the move to
\* "drain", exactly when the queue is empty; on a non-empty queue with a
\* task whose unfulfilled deps are empty it starts the first such task in
\* insertion order and removes it from the queue; otherwise it is Pending,
\* seen as the move to "join", and the queue is left as it was
C23_TakeNextReady ==
    [][(pc = "feed" /\ HasCapacity /\ ~cancel
            /\ (pc' # pc \/ started' # started))
        => LET ready == {i \in 1..Len(queue) : queue[i].deps = {}}
           IN /\ (pc' = "drain") <=> (queue = <<>>)
              /\ queue = <<>> => queue' = queue /\ started' = started
              /\ (queue # <<>> /\ ready # {})
                    => \E i \in ready :
                          /\ \A j \in 1..(i - 1) : queue[j].deps # {}
                          /\ started' = Append(started, queue[i].task)
                          /\ queue' = [k \in 1..(Len(queue) - 1) |->
                                          IF k < i THEN queue[k]
                                          ELSE queue[k + 1]]
                          /\ pc' = pc
              /\ (queue # <<>> /\ ready = {})
                    => /\ pc' = "join"
                       /\ queue' = queue
                       /\ started' = started]_vars

\* a task that was not the first of the queue has been taken, and the next
\* poll found only tasks with unfulfilled deps
C23_Witness ==
    /\ pc = "join"
    /\ started # <<>>
    /\ started[1] # input_queue[1]
    /\ queue # <<>>
    /\ \A i \in 1..Len(queue) : queue[i].deps # {}

\* C24: with max_concurrency = 1 and no failed job, a job is started only
\* when no other job is running or waiting to be joined, and the task it runs
\* is the earliest of the input queue, among the tasks not started yet, whose
\* deps have all completed; the queue [1, 2, 3] without deps has run 1, 2, 3
\* when Ok is returned, and 2, 1, 3 when task 1 depends on task 2
C24_SerialOrder ==
    /\ [][(max_concurrency = 1 /\ ~AnyJobErr /\ started' # started)
            => LET eligible ==
                       {i \in 1..Len(input_queue) :
                           /\ input_queue[i] \notin Range(started)
                           /\ \A d \in deps_graph[input_queue[i]] :
                                 job[d] = "ok"}
               IN /\ Running = {} /\ notified = <<>>
                  /\ \E i \in eligible :
                        /\ \A j \in eligible : i <= j
                        /\ started' = Append(started, input_queue[i])]_vars
    /\ [](max_concurrency = 1 => Cardinality(Running) <= 1)
    /\ []((max_concurrency = 1 /\ input_queue = <<1, 2, 3>>
              /\ pc = "done" /\ result = "Ok")
            => /\ (\A t \in Tasks : deps_graph[t] = {})
                      => started = <<1, 2, 3>>
               /\ (deps_graph[1] = {2}
                      /\ \A t \in Tasks \ {1} : deps_graph[t] = {})
                      => started = <<2, 1, 3>>)

\* the run of [1, 2, 3] with 1 depending on 2 has returned Ok
C24_Witness ==
    /\ max_concurrency = 1
    /\ input_queue = <<1, 2, 3>>
    /\ deps_graph[1] = {2}
    /\ \A t \in Tasks \ {1} : deps_graph[t] = {}
    /\ pc = "done"
    /\ result = "Ok"
    /\ started = <<2, 1, 3>>

\* C25: a call of mark_fulfilled(t) for a task t that is still in the queue
\* panics; for a task t that take_next_ready_task has handed out it does not
\* panic, keeps the tasks of the queue and their order, and takes t, and
\* nothing but t, out of the unfulfilled deps of every queued task
C25_MarkFulfilled ==
    [][\A t \in Tasks :
          (job[t] # "ok" /\ job'[t] = "ok") =>
             /\ (\E i \in 1..Len(queue) : queue[i].task = t)
                    => result' = "Panic"
             /\ (job[t] = "running" /\ t \in Range(started))
                    => /\ result' = result
                       /\ Len(queue') = Len(queue)
                       /\ \A i \in 1..Len(queue) :
                             /\ queue'[i].task = queue[i].task
                             /\ queue'[i].deps = queue[i].deps \ {t}
                       /\ started' = started]_vars

\* a taken task was marked, which took it out of the deps of a task that is
\* still queued, and a later call for a queued task has panicked
C25_Witness ==
    /\ result = "Panic"
    /\ \E t \in Range(started) :
          /\ job[t] = "ok"
          /\ \E i \in 1..Len(queue) :
                /\ t \in deps_graph[queue[i].task]
                /\ t \notin queue[i].deps

\* C26: once build_dependency_graph has returned Ok, every key of the graph
\* and every successor listed in it has an entry in instantiations, every
\* successor is a key of the graph, and task.instantiate was called exactly
\* once for each of these invocations
C26_GraphInstantiated ==
    (rpc \notin {"off", "build"}) =>
        LET keys == Range(graph.keys)
            succs == UNION {Range(graph.succ[k]) : k \in keys}
        IN /\ keys \subseteq Range(graph.inst)
           /\ succs \subseteq Range(graph.inst)
           /\ succs \subseteq keys
           /\ \A v \in keys \cup succs :
                 Cardinality({i \in 1..Len(graph.inst) : graph.inst[i] = v}) = 1
           /\ Len(graph.inst) = Cardinality(keys)

\* the graph was built for a request with an invocation that is the dep of
\* two different tasks
C26_Witness ==
    /\ rpc \notin {"off", "build"}
    /\ \E k1, k2 \in Range(graph.keys) :
          /\ k1 # k2
          /\ Range(graph.succ[k1]) \cap Range(graph.succ[k2]) # {}
    /\ Len(graph.inst) = Len(graph.keys)

\* C27: load_taskfile returns also when the imports form a cycle: no call
\* of the recursion repeats a call that has not returned, no file that a
\* front-end can load is loaded by it twice, and such a file is in the
\* workspace exactly when its front-end has loaded it once; a file is only
\* ever stored by a front-end call
C27_ImportCyclesTerminate ==
    /\ ws_call.ret.err # "Hang"
    /\ \A f \in Files :
          /\ disk[f].status # "unloadable" =>
                /\ ws_loads[f] <= 1
                /\ (ws_loads[f] = 1) <=> (\E id \in DOMAIN ws : id[1] = f)
          /\ (\E id \in DOMAIN ws : id[1] = f) => ws_loads[f] = 1

\* a load has returned Ok on two files that import each other
C27_Witness ==
    /\ ws_call.ret.ok
    /\ \E f, g \in Files :
          /\ f # g
          /\ \E i \in DOMAIN disk[f].imports : disk[f].imports[i][1] = g
          /\ \E i \in DOMAIN disk[g].imports : disk[g].imports[i][1] = f
          /\ ws_loads[f] = 1
          /\ ws_loads[g] = 1

\* C28: for a task with at least one declared output and no steps,
\* should_run returns Ok(false) whatever its phony flag, its sources and the
\* state of its outputs are; up_to_date() is what comes next and the
\* executor is never called
C28_NoStepsNeverRuns ==
    /\ [][(ShouldRunReturns /\ Len(trg_task.outputs) > 0 /\ ~trg_task.steps)
            => Skipped]_vars
    /\ []((Len(trg_task.outputs) > 0 /\ ~trg_task.steps)
            => trg_pc # "execute")

\* a phony task without steps, with a missing output and a missing source,
\* has been reported up to date
C28_Witness ==
    /\ Len(trg_task.outputs) > 0
    /\ ~trg_task.steps
    /\ trg_task.phony
    /\ \E i \in 1..Len(trg_task.outputs) : ~fs[trg_task.outputs[i]].exists
    /\ \E j \in 1..Len(trg_task.sources) : ~fs[trg_task.sources[j]].exists
    /\ trg_pc = "check_outputs"
    /\ should_ret.ok
    /\ ~should_ret.run

\* the rule of check_outputs for the entry of output p
EntryRuled(p) ==
    /\ (p \in output_hashes
           /\ (p \notin DOMAIN not_changed \/ not_changed[p]))
          => /\ p \in DOMAIN not_changed'
             /\ not_changed'[p] = (~should_ret.run \/ p \notin rewritten)
    /\ (p \notin output_hashes /\ p \notin DOMAIN not_changed)
          => /\ p \in DOMAIN not_changed'
             /\ not_changed'[p] = FALSE

\* the entry of p is as it was
EntryKept(p) ==
    /\ p \in DOMAIN not_changed' <=> p \in DOMAIN not_changed
    /\ p \in DOMAIN not_changed => not_changed'[p] = not_changed[p]

RegeneratedSource(f) ==
    /\ f \in Range(trg_task.sources)
    /\ f \in regenerated
    /\ ~(f \in DOMAIN not_changed /\ ~not_changed[f])
    /\ ~trg_task.phony
    /\ \A o \in Range(trg_task.outputs) :
          /\ fs[o].exists
          /\ \A src \in Range(trg_task.sources) \ {f} :
                /\ fs[src].exists
                /\ fs[o].mtime >= fs[src].mtime

\* C30 as stated: within one run, a later non-phony task D that lists as a
\* source a file f that an earlier task executed and regenerated with the
\* same content, f not being marked changed, is skipped when its outputs
\* all exist and are not older than its other sources
C30_Original ==
    [][(ShouldRunReturns /\ \E f \in DOMAIN fs : RegeneratedSource(f))
          => Skipped]_vars

\* C30: within one run, when an earlier job executed its task and wrote the
\* output f, which existed and was hashed before, with the same content,
\* and f is not marked changed, every later job whose task D declares at
\* least one output, is not phony, lists f as a source and has its outputs
\* in place and not older than any of its other sources is skipped,
\* whatever the modification time of f
C30_IdenticalOutputSkipsDependent ==
    [][(/\ ShouldRunReturns
        /\ Len(trg_task.outputs) > 0
        /\ \E f \in DOMAIN fs : RegeneratedSource(f))
          => Skipped]_vars

\* D, whose output is not f, was skipped: its source f was regenerated by
\* an earlier job that executed, is marked not changed and is newer than
\* the output of D, which is not older than the other source of D
C30_Witness ==
    /\ trg_pc = "up_to_date"
    /\ ~should_ret.run
    /\ ~trg_task.phony
    /\ Len(trg_task.outputs) = 1
    /\ \E f \in Range(trg_task.sources) :
          /\ f \in regenerated
          /\ f # trg_task.outputs[1]
          /\ f \in DOMAIN not_changed
          /\ not_changed[f]
          /\ fs[f].exists
          /\ fs[trg_task.outputs[1]].exists
          /\ fs[trg_task.outputs[1]].mtime < fs[f].mtime
          /\ \E src \in Range(trg_task.sources) \ {f, trg_task.outputs[1]} :
                /\ fs[src].exists
                /\ fs[src].mtime <= fs[trg_task.outputs[1]].mtime

\* C31 as stated: check_outputs returns OutputFileNotFound whenever a
\* declared output does not exist at check time, after a run and after a skip
C31_Original ==
    [][(trg_pc = "check_outputs" /\ trg_pc' = "done"
           /\ \E i \in 1..Len(trg_task.outputs) :
                 ~fs[trg_task.outputs[i]].exists)
         => task_ret' = "OutputFileNotFound"]_vars

\* C32: in a sequential run, when run returns Ok enter_task has been called
\* exactly once for every node of the dependency graph; a task is entered
\* only between jobs and should_run is what is called first; should_run is
\* followed by run() exactly when it returned true and by up_to_date()
\* exactly when it returned false, never by both; check_outputs is called
\* after either of them and only then, and a job returns Ok only out of
\* check_outputs
C32_JobProtocol ==
    /\ [](run_result = "Ok" =>
            /\ Len(entered) = Len(graph.keys)
            /\ \A k \in Range(graph.keys) :
                  Cardinality({i \in 1..Len(entered) : entered[i] = k}) = 1)
    /\ [][/\ entered' # entered
              => (trg_pc = "off" /\ trg_pc' = "should_run")
          /\ (trg_pc = "should_run" /\ trg_pc' # trg_pc)
              => \/ should_ret'.ok /\ should_ret'.run /\ trg_pc' = "execute"
                 \/ should_ret'.ok /\ ~should_ret'.run
                       /\ trg_pc' = "up_to_date"
                 \/ ~should_ret'.ok /\ trg_pc' = "done" /\ task_ret' # "Ok"
          /\ (trg_pc' = "execute" /\ trg_pc # trg_pc')
              => trg_pc = "should_run"
          /\ (trg_pc' = "up_to_date" /\ trg_pc # trg_pc')
              => trg_pc = "should_run"
          /\ (trg_pc = "execute" /\ trg_pc' # trg_pc)
              => \/ trg_pc' = "check_outputs"
                 \/ trg_pc' = "done" /\ task_ret' # "Ok"
          /\ (trg_pc = "up_to_date" /\ trg_pc' # trg_pc)
              => trg_pc' = "check_outputs"
          /\ (trg_pc' = "check_outputs" /\ trg_pc # trg_pc')
              => trg_pc \in {"execute", "up_to_date"}
          /\ (task_ret' = "Ok" /\ task_ret # "Ok")
              => trg_pc = "check_outputs"
          /\ completed' # completed
              => (trg_pc = "done" /\ task_ret = "Ok")]_vars

\* run returned Ok over a graph of three tasks, of which an earlier one was
\* executed and the last one was skipped
C32_Witness ==
    /\ run_result = "Ok"
    /\ Len(entered) >= 3
    /\ should_ret.ok
    /\ ~should_ret.run
    /\ 1 \in DOMAIN not_changed
    /\ ~not_changed[1]

\* C33: in a sequential run, once the cancellation flag is set no further
\* job of the sorted list is entered, and run does not return Ok when jobs
\* were left to enter at the time the flag was set
C33_CancelBetweenJobs ==
    /\ [][cancel => entered' = entered]_vars
    /\ [][(cancel /\ rpc = "loop" /\ run_i <= Len(sorted))
             => run_result' # "Ok"]_vars

\* C34: when a job fails while other jobs are running, these are not
\* aborted: no job is cancelled, and the failure is returned only after
\* every started job has returned by itself
C34_RunningJobsFinish ==
    /\ \A t \in Tasks : job[t] # "cancelled"
    /\ (pc = "done" /\ result \in {"Failed", "Panic"})
          => \A t \in Range(started) : job[t] \in {"ok", "err"}

\* C35: a recursive clean that returns Ok has processed every task of the
\* dependency graph exactly once; a task is processed before each of its
\* deps; a task that is processed starts on its clean steps, unless the
\* working directory of the process is gone, which is a failure; within a
\* task no output is deleted before its clean steps, if any, have run, the
\* deletions of outputs coming only in the pass over the outputs that
\* follows them, and the tree changes only while a task is cleaned; after a
\* failure in a task no further task is processed, the tree stays as it is
\* and clean does not return Ok
C35_RecursiveClean ==
    /\ [](run_result = "Ok" =>
            /\ Len(entered) = Len(graph.keys)
            /\ \A k \in Range(graph.keys) :
                  Cardinality({i \in 1..Len(entered) : entered[i] = k}) = 1)
    /\ [](\A j \in 1..Len(entered) :
             \A u \in Range(graph.keys) :
                (entered[j] \in Range(graph.succ[u]))
                   => \E i \in 1..(j - 1) : entered[i] = u)
    /\ [][/\ tree' # tree => (cl_pc \in {"steps", "outputs"} /\ current # 0)
          /\ cl_removed' # cl_removed => (cl_pc = "outputs" /\ current # 0)
          /\ (cl_pc' = "outputs" /\ cl_pc # "outputs") => cl_pc = "steps"
          /\ entered' # entered
              => /\ cl_pc = "off"
                 /\ \/ cl_pc' = "steps"
                    \/ /\ ~current_dir(tree, cl_cwd)
                       /\ cl_pc' = "done"
                       /\ cl_ret' = "Panic"
          /\ (cl_pc = "done" /\ cl_ret # "Ok")
              => (/\ entered' = entered
                  /\ tree' = tree
                  /\ cl_removed' = cl_removed
                  /\ run_result' # "Ok")
          /\ (rpc = "done" /\ run_result # "Ok")
              => (/\ entered' = entered
                  /\ tree' = tree
                  /\ cl_removed' = cl_removed)]_vars

\* a clean of three tasks has returned Ok after deleting an output
C35_Witness ==
    /\ run_result = "Ok"
    /\ Len(entered) >= 3
    /\ entered[1] = req
    /\ cl_removed # {}

\* C36: a dep of a task of the graph that names a sibling dep in its `after`
\* list is entered by the run only once that sibling has completed
C36_AfterOrdersSiblings ==
    \A t \in Range(graph.keys) : \A ab \in dep_after[t] :
        (task_deps[t][ab[1]] \in Range(entered))
            => (task_deps[t][ab[2]] \in completed)

\* C37: the pump has returned Ok only if run_while() was true at every poll
\* and every task of the queue was started once and finished with Ok; a poll
\* at which run_while() is false, with every task already completed or not,
\* marks the run interrupted and goes to wait for the running jobs, and an
\* interrupted run returns an error
C37_OkOnlyIfAllDoneAndNeverCancelled ==
    /\ [](result = "Ok" =>
            /\ ~interrupted
            /\ \A t \in Queued : StartedOnce(t) /\ job[t] = "ok")
    /\ [][(pc = "feed" /\ HasCapacity /\ cancel /\ pc' # "feed")
            => (interrupted' /\ pc' = "drain")]_vars
    /\ []((pc = "done" /\ interrupted)
            => result \in {"Interrupted", "Failed"})

\* every task of the queue has completed with Ok, the poll made after the
\* last of them saw run_while() false, and the pump returned the
\* 'interrupted' error
C37_Witness ==
    /\ pc = "done"
    /\ interrupted
    /\ result = "Interrupted"
    /\ Len(input_queue) >= 2
    /\ queue = <<>>
    /\ \A t \in Queued : StartedOnce(t) /\ job[t] = "ok"

\* C38: within one run no step of any job removes a path from not_changed,
\* and a path recorded as changed (not_changed[p] = FALSE) stays so
C38_NotChangedMonotone ==
    [][\A p \in DOMAIN not_changed :
          /\ p \in DOMAIN not_changed'
          /\ ~not_changed[p] => ~not_changed'[p]]_vars

\* check_outputs has returned Ok for a job whose output, recorded as changed
\* by an earlier job, was hashed by should_run and found identical
C38_Witness ==
    /\ trg_pc = "done"
    /\ task_ret = "Ok"
    /\ should_ret.ok
    /\ \E p \in Range(trg_task.outputs) :
          /\ p \in output_hashes
          /\ ~should_ret.run \/ p \notin rewritten
          /\ p \in DOMAIN not_changed
          /\ ~not_changed[p]

\* C39: for every argument checked at instantiation, check_type accepts the
\* value for the type of its param iff the validate predicate of that type
\* holds for it; a number param accepts only JSON numbers
C39_CheckTypeIsValidate ==
    inst_ret # NotCalled =>
        \A k \in DOMAIN inst_args \cap DOMAIN inst_params :
            /\ check_type(inst_params[k].ty, inst_args[k]).ok
                  <=> validate(inst_params[k].ty, inst_args[k])
            /\ (inst_params[k].ty = TNumber
                  /\ check_type(TNumber, inst_args[k]).ok)
                  => inst_args[k].kind = "number"

\* the tasks given to add so far
C40_Added == QueueKeys(queue) \cup Range(started)

\* the two maps agree on every queued task
C40_Agree ==
    \A i \in 1..Len(queue) : \A d \in Tasks :
        (d \in queue[i].deps)
           <=> (d \in DOMAIN parents /\ queue[i].task \in parents[d])

\* mark_fulfilled was called for taken tasks only
C40_MarkedAfterTake == \A t \in Tasks : job[t] = "ok" => t \in Range(started)

\* every added task has been taken and every added task that has
\* dependents has been marked fulfilled
C40_AllDone ==
    /\ pc = "feed"
    /\ C40_MarkedAfterTake
    /\ C40_Added \subseteq Range(started)
    /\ \A d \in C40_Added :
          (\E t \in C40_Added : d \in deps_graph[t]) => job[d] = "ok"

\* C40 as stated: under any sequence of add, take_next_ready_task and
\* mark_fulfilled-after-take the two maps agree on every queued task, and
\* both are empty once every task is taken and fulfilled
C40_Original ==
    C40_MarkedAfterTake =>
        /\ C40_Agree
        /\ C40_AllDone => (queue = <<>> /\ parents = <<>>)

\* C40 amended: as long as no call has panicked (add of a task that is
\* still queued panics in a debug build after it has updated `parents`,
\* mark_fulfilled of a queued task panics), d is among the deps kept for a
\* queued task t in `queue` iff t is among the dependents kept for d in
\* `parents`; and once every added task has been taken and every added task
\* that has dependents has been marked fulfilled, mark_fulfilled having
\* been called for taken tasks only, `queue` and `parents` are empty
C40_MapsConsistent ==
    /\ result # "Panic" => C40_Agree
    /\ C40_AllDone => (queue = <<>> /\ parents = <<>>)

\* three tasks, one of them added after another had been taken, have all
\* been taken and the two that have dependents marked fulfilled
C40_Witness ==
    /\ pc = "feed"
    /\ result = "none"
    /\ Len(started) = 3
    /\ Len(input_queue) < 3
    /\ \E d \in Tasks : \E t \in Tasks \ {d} :
          /\ d \in deps_graph[t]
          /\ t \in deps_graph[CHOOSE u \in Tasks : u \notin {d, t}]
          /\ job[d] = "ok" /\ job[t] = "ok"
    /\ queue = <<>> /\ parents = <<>>

====
